---- MODULE Spec2Model ----
(***************************************************************************)
(* A model of the lox-v2 bytecode compiler and stack VM: the open-addressed *)
(* hash table (src/src/table.rs), the string-interning allocator            *)
(* (src/src/object.rs), the scanner (src/src/scanner.rs), the single-pass   *)
(* Pratt compiler (src/src/compiler.rs) and the VM (src/src/vm.rs).         *)
(*                                                                         *)
(* Heap pointers are handles: the handle of an object is its 1-based       *)
(* position in the allocator's object list, 0 is the null pointer.         *)
(* Bytes are numbers 0..255, strings are sequences of bytes.               *)
(***************************************************************************)
EXTENDS Integers, Sequences, FiniteSets, TLC

VARIABLES
    objects,    \* Allocator.objects: every allocated ObjString, oldest first
    strings,    \* Allocator.strings: the intern table
    freed,      \* per handle, how many times the allocation of the object (obj)
                \* and its `str` field (str) have been dropped
    table,      \* a Table driven directly through set / get / delete
    tmap,       \* the finite map the calls on `table` describe (history)
    nops,       \* how many set / delete calls the behaviour has made on `table`
    tret,       \* the last set / delete call on `table`: which, and what it returned
    calls,      \* the (bytes, handle) pairs returned by copy_string / take_string
    last,       \* the latest run-time string: the call that made it, its handle
    globals,    \* Vm.globals
    stack,      \* Vm.stack
    out,        \* the bytes written to Vm.stdout
    chunk,      \* the Chunk of the running interpret call
    ip,         \* offset of the next instruction of the running chunk
    pc,         \* "idle", "running" (inside Vm::run), "hung" (a loop that never
                \* ends) or "dropped" (the allocator has been dropped)
    result,     \* what the last interpret call returned
    cur,        \* the interpret call in progress or last finished (history)
    defined,    \* the global bindings made by DefineGlobal so far (history)
    hist,       \* the kinds of result of the finished interpret calls (history)
    comp,       \* a compile call driven directly: its Compiler and how far it is
    scan,       \* a Scanner driven directly: its source, its state, its last result
    repl        \* main running the REPL or a file: where it is, the line or the
                \* file read, the exit code

allocVars == <<objects, strings, freed, calls, last>>
tableVars == <<table, tmap, nops, tret>>
vmVars == <<globals, stack, out, chunk, ip, result, cur, defined, hist, comp, scan, repl>>
vars == <<objects, strings, freed, calls, last, table, tmap, nops, tret, globals, stack, out,
          chunk, ip, pc, result, cur, defined, hist, comp, scan, repl>>

\* The value of a function at the only element of its domain:
\* With([x \in {e} |-> body]) is body with x standing for the value of e.
With(f) == f[CHOOSE x \in DOMAIN f : TRUE]

----------------------------------------------------------------------------
(* Values (src/src/value.rs).  A value is a record of three integers: the  *)
(* tag t, and the payload a, b.  A Number is the rational a/b in lowest    *)
(* terms with b > 0; b = 0 stands for the IEEE specials (a = 1: +inf,      *)
(* a = -1: -inf, a = 0: NaN).                                              *)

TagNil == 0
TagBool == 1
TagNumber == 2
TagObject == 3

Nil == [t |-> TagNil, a |-> 0, b |-> 0]
Bool(x) == [t |-> TagBool, a |-> IF x THEN 1 ELSE 0, b |-> 0]
Abs(n) == IF n < 0 THEN -n ELSE n
RECURSIVE Gcd(_, _)
Gcd(m, n) == IF n = 0 THEN m ELSE Gcd(n, m % n)
Number(n, d) ==
    IF d = 0 THEN [t |-> TagNumber, a |-> IF n > 0 THEN 1 ELSE IF n < 0 THEN -1 ELSE 0, b |-> 0]
    ELSE LET g == Gcd(Abs(n), Abs(d))
             s == IF d < 0 THEN -1 ELSE 1
         IN [t |-> TagNumber, a |-> s * (n \div g), b |-> s * (d \div g)]
Object(h) == [t |-> TagObject, a |-> h, b |-> 0]

\* Value::is_falsey
is_falsey(v) == v = Nil \/ v = Bool(FALSE)

\* Object == Object compares handles
ObjectEq(x, y) == x.a = y.a

\* impl PartialEq for Value
ValueEq(x, y) ==
    IF x.t = TagObject /\ y.t = TagObject THEN ObjectEq(x, y)
    ELSE IF x.t = TagNil /\ y.t = TagNil THEN TRUE
    ELSE IF x.t = TagBool /\ y.t = TagBool THEN x.a = y.a
    ELSE IF x.t = TagNumber /\ y.t = TagNumber
         THEN IF x.b = 0 /\ x.a = 0 THEN FALSE ELSE (x.a = y.a /\ x.b = y.b)
    ELSE FALSE

----------------------------------------------------------------------------
(* FNV-1a (src/src/table.rs, hash).  A u32 is kept as its two 16-bit       *)
(* halves [hi, lo], so that no intermediate product exceeds 32 bits.       *)

RECURSIVE Xor(_, _, _)
\* bitwise xor of the `bits` low bits of x and y
Xor(x, y, bits) ==
    IF bits = 0 THEN 0
    ELSE ((x + y) % 2) + 2 * Xor(x \div 2, y \div 2, bits - 1)

FnvBasisHi == 33052
FnvBasisLo == 40389
FnvPrimeLo == 403

\* a step that multiplies before it xors (FNV-1 instead of FNV-1a)
HashStepMultipliesFirst(h, byte) ==
    LET p == h.lo * FnvPrimeLo
        hi == (h.hi * FnvPrimeLo + (p \div 65536) + (h.lo % 256) * 256) % 65536
        lo == p % 65536
    IN [hi |-> hi, lo |-> (lo - (lo % 256)) + Xor(lo % 256, byte, 8)]

\* hash ^= b; hash = hash.wrapping_mul(16777619), 16777619 = 2^24 + 403
HashStep(h, byte) ==
    LET lo == (h.lo - (h.lo % 256)) + Xor(h.lo % 256, byte, 8)
        p == lo * FnvPrimeLo
    IN [hi |-> (h.hi * FnvPrimeLo + (p \div 65536) + (lo % 256) * 256) % 65536,
        lo |-> p % 65536]

RECURSIVE HashFrom(_, _, _)
HashFrom(h, s, i) == IF i > Len(s) THEN h ELSE HashFrom(HashStep(h, s[i]), s, i + 1)

hash(s) == HashFrom([hi |-> FnvBasisHi, lo |-> FnvBasisLo], s, 1)

\* hash % capacity, for a u32 kept in halves
HashMod(h, capacity) ==
    (((h.hi % capacity) * (65536 % capacity)) + (h.lo % capacity)) % capacity

----------------------------------------------------------------------------
(* The hash table (src/src/table.rs).  A Table is [entries, len,           *)
(* capacity]; entries[i + 1] is slot i.  An Entry is [key, value], key 0   *)
(* the null pointer.  `objs` is the heap the key pointers point into.      *)
(* A probe loop that can never return is reported as Hang.                 *)

Hang == -1
NullEntry == -2

EmptyEntry == [key |-> 0, value |-> Nil]
Tombstone == [key |-> 0, value |-> Bool(TRUE)]

\* Table::new
NewTable == [entries |-> <<>>, len |-> 0, capacity |-> 0]

RECURSIVE FindEntryLoop(_, _, _, _, _, _, _)
\* the loop of find_entry; n counts the slots visited: after `capacity`
\* visits without a return the loop revisits the same slots for ever
FindEntryLoop(entries, capacity, key, objs, index, tombstone, n) ==
    IF n = capacity THEN Hang
    ELSE LET entry == entries[index + 1] IN
         IF entry.key = 0
         THEN IF ValueEq(entry.value, Nil)
              THEN (IF tombstone = NullEntry THEN index ELSE tombstone)
              ELSE FindEntryLoop(entries, capacity, key, objs,
                                 (index + 1) % capacity, index, n + 1)
         ELSE IF entry.key = key THEN index
         ELSE FindEntryLoop(entries, capacity, key, objs,
                            (index + 1) % capacity, tombstone, n + 1)

\* a find_entry that never recognises the key in a slot
find_entry_ignores_key(entries, capacity, key, objs) ==
    FindEntryLoop(entries, capacity, 0, objs,
                  HashMod(objs[key].hash, capacity), NullEntry, 0)

\* find_entry: the slot index it returns, or Hang
find_entry(entries, capacity, key, objs) ==
    FindEntryLoop(entries, capacity, key, objs,
                  HashMod(objs[key].hash, capacity), NullEntry, 0)

\* grow_capacity
grow_capacity(capacity) == IF capacity < 8 THEN 8 ELSE capacity * 2

RECURSIVE AdjustLoop(_, _, _, _, _)
\* the reinsertion loop of adjust_capacity over the old slots i..capacity-1;
\* acc is [entries, len, hang]
AdjustLoop(old, acc, new_capacity, objs, i) ==
    IF i = old.capacity \/ acc.hang THEN acc
    ELSE LET entry == old.entries[i + 1] IN
         IF entry.key = 0 THEN AdjustLoop(old, acc, new_capacity, objs, i + 1)
         ELSE With([dest \in {find_entry(acc.entries, new_capacity, entry.key, objs)} |->
              IF dest = Hang THEN [acc EXCEPT !.hang = TRUE]
              ELSE AdjustLoop(old,
                              [acc EXCEPT !.entries[dest + 1] = [key |-> entry.key, value |-> entry.value],
                                          !.len = acc.len + 1],
                              new_capacity, objs, i + 1)])

\* an adjust_capacity that goes on counting from the old len
adjust_capacity_keeps_len(t, new_capacity, objs) ==
    With([acc \in {AdjustLoop(t, [entries |-> [i \in 1..new_capacity |-> EmptyEntry],
                                   len |-> t.len, hang |-> FALSE],
                               new_capacity, objs, 0)} |->
        [t |-> [entries |-> acc.entries, len |-> acc.len, capacity |-> new_capacity],
         hang |-> acc.hang]])

\* Table::adjust_capacity: [t, hang]
adjust_capacity(t, new_capacity, objs) ==
    With([acc \in {AdjustLoop(t, [entries |-> [i \in 1..new_capacity |-> EmptyEntry],
                                   len |-> 0, hang |-> FALSE],
                               new_capacity, objs, 0)} |->
        [t |-> [entries |-> acc.entries, len |-> acc.len, capacity |-> new_capacity],
         hang |-> acc.hang]])

\* ((capacity as f64) * MAX_LOAD) as usize
MaxLoadNum == 3
MaxLoadDen == 4
\* a limit that lets every slot be filled
LoadLimitWhole(capacity) == capacity
LoadLimit(capacity) == (capacity * MaxLoadNum) \div MaxLoadDen

\* Table::get: [hang, some, v]
TableGet(t, key, objs) ==
    IF t.len = 0 THEN [hang |-> FALSE, some |-> FALSE, v |-> Nil]
    ELSE With([e \in {find_entry(t.entries, t.capacity, key, objs)} |->
         IF e = Hang THEN [hang |-> TRUE, some |-> FALSE, v |-> Nil]
         ELSE IF t.entries[e + 1].key = 0 THEN [hang |-> FALSE, some |-> FALSE, v |-> Nil]
         ELSE [hang |-> FALSE, some |-> TRUE, v |-> t.entries[e + 1].value]])

\* a set that leaves the value of a key the table already holds
TableSetKeepsOld(t, key, value, objs) ==
    With([grown \in {IF t.len + 1 > LoadLimit(t.capacity)
                     THEN adjust_capacity(t, grow_capacity(t.capacity), objs)
                     ELSE [t |-> t, hang |-> FALSE]} |->
        IF grown.hang THEN [t |-> t, hang |-> TRUE, ret |-> FALSE]
        ELSE With([e \in {find_entry(grown.t.entries, grown.t.capacity, key, objs)} |->
            IF e = Hang THEN [t |-> t, hang |-> TRUE, ret |-> FALSE]
            ELSE LET g == grown.t
                     entry == g.entries[e + 1]
                     is_new_key == entry.key = 0
                 IN [t |-> [g EXCEPT !.entries[e + 1] =
                                         IF is_new_key THEN [key |-> key, value |-> value]
                                         ELSE entry,
                                     !.len = IF is_new_key /\ ValueEq(entry.value, Nil)
                                             THEN g.len + 1 ELSE g.len],
                     hang |-> FALSE,
                     ret |-> is_new_key]])])

\* a set that returns whether it has counted the key
TableSetReturnsCounted(t, key, value, objs) ==
    With([grown \in {IF t.len + 1 > LoadLimit(t.capacity)
                     THEN adjust_capacity(t, grow_capacity(t.capacity), objs)
                     ELSE [t |-> t, hang |-> FALSE]} |->
        IF grown.hang THEN [t |-> t, hang |-> TRUE, ret |-> FALSE]
        ELSE With([e \in {find_entry(grown.t.entries, grown.t.capacity, key, objs)} |->
            IF e = Hang THEN [t |-> t, hang |-> TRUE, ret |-> FALSE]
            ELSE LET g == grown.t
                     entry == g.entries[e + 1]
                     is_new_key == entry.key = 0
                 IN [t |-> [g EXCEPT !.entries[e + 1] = [key |-> key, value |-> value],
                                     !.len = IF is_new_key /\ ValueEq(entry.value, Nil)
                                             THEN g.len + 1 ELSE g.len],
                     hang |-> FALSE,
                     ret |-> is_new_key /\ ValueEq(entry.value, Nil)]])])

\* Table::set: [t, hang, ret]
TableSet(t, key, value, objs) ==
    With([grown \in {IF t.len + 1 > LoadLimit(t.capacity)
                     THEN adjust_capacity(t, grow_capacity(t.capacity), objs)
                     ELSE [t |-> t, hang |-> FALSE]} |->
        IF grown.hang THEN [t |-> t, hang |-> TRUE, ret |-> FALSE]
        ELSE With([e \in {find_entry(grown.t.entries, grown.t.capacity, key, objs)} |->
            IF e = Hang THEN [t |-> t, hang |-> TRUE, ret |-> FALSE]
            ELSE LET g == grown.t
                     entry == g.entries[e + 1]
                     is_new_key == entry.key = 0
                 IN [t |-> [g EXCEPT !.entries[e + 1] = [key |-> key, value |-> value],
                                     !.len = IF is_new_key /\ ValueEq(entry.value, Nil)
                                             THEN g.len + 1 ELSE g.len],
                     hang |-> FALSE,
                     ret |-> is_new_key]])])

\* Table::delete: [t, hang, ret].  find_entry never returns a null pointer,
\* so the entry.is_null() early return is never taken.
TableDelete(t, key, objs) ==
    IF t.len = 0 THEN [t |-> t, hang |-> FALSE, ret |-> FALSE]
    ELSE With([e \in {find_entry(t.entries, t.capacity, key, objs)} |->
         IF e = Hang THEN [t |-> t, hang |-> TRUE, ret |-> FALSE]
         ELSE IF e = NullEntry THEN [t |-> t, hang |-> FALSE, ret |-> FALSE]
         ELSE [t |-> [t EXCEPT !.entries[e + 1] = Tombstone], hang |-> FALSE, ret |-> TRUE]])

RECURSIVE FindStringLoop(_, _, _, _, _, _)
\* the loop of Table::find_string: a handle, 0 for None, or Hang
FindStringLoop(t, str, h, objs, idx, n) ==
    IF n = t.capacity THEN Hang
    ELSE LET entry == t.entries[idx + 1] IN
         IF entry.key = 0 /\ entry.value.t = TagNil THEN 0
         ELSE IF entry.key # 0
                 /\ Len(objs[entry.key].str) = Len(str)
                 /\ objs[entry.key].hash = h
                 /\ objs[entry.key].str = str
              THEN entry.key
         ELSE FindStringLoop(t, str, h, objs, (idx + 1) % t.capacity, n + 1)

\* what the read of (*key).hash yields when key is the null pointer, which
\* is undefined behaviour: the process is stopped by the fault, or the read
\* yields whatever the build makes of it
Fault == [hi |-> -1, lo |-> -1]
NullHashes == {[hi |-> 0, lo |-> 0], [hi |-> 0, lo |-> 4]}
NullReads == {Fault} \cup NullHashes

\* Table::set(ptr::null_mut(), value): [t, status]; find_entry reads the
\* hash through the null key, and the slot it returns has a null key
SetNullKey(t, value, read, objs) ==
    With([grown \in {IF t.len + 1 > LoadLimit(t.capacity)
                     THEN adjust_capacity(t, grow_capacity(t.capacity), objs)
                     ELSE [t |-> t, hang |-> FALSE]} |->
        IF grown.hang THEN [t |-> t, status |-> "hang"]
        ELSE IF read = Fault THEN [t |-> grown.t, status |-> "fault"]
        ELSE With([e \in {FindEntryLoop(grown.t.entries, grown.t.capacity, 0, objs,
                                        HashMod(read, grown.t.capacity), NullEntry, 0)} |->
            IF e = Hang THEN [t |-> grown.t, status |-> "hang"]
            ELSE LET g == grown.t
                     entry == g.entries[e + 1]
                 IN [t |-> [g EXCEPT !.entries[e + 1] = [key |-> 0, value |-> value],
                                     !.len = IF ValueEq(entry.value, Nil)
                                             THEN g.len + 1 ELSE g.len],
                     status |-> "ok"]])])

RECURSIVE AddAllLoop(_, _, _, _, _)
\* the loop of Table::add_all over the slots i..capacity-1 of source; acc
\* is [t, status], t the dest table: `if entry.key.is_null()` passes the
\* slots WITHOUT a key to dest.set and skips the slots with one
AddAllLoop(source, acc, read, objs, i) ==
    IF i = source.capacity \/ acc.status # "ok" THEN acc
    ELSE LET entry == source.entries[i + 1] IN
         IF entry.key = 0
         THEN AddAllLoop(source, SetNullKey(acc.t, entry.value, read, objs), read, objs, i + 1)
         ELSE AddAllLoop(source, acc, read, objs, i + 1)

\* Table::add_all: [t, status], t the dest table, status "ok" (returned),
\* "fault" or "hang"
add_all(source, dest, read, objs) ==
    AddAllLoop(source, [t |-> dest, status |-> "ok"], read, objs, 0)

\* a find_string that never finds an interned string
find_string_none(t, str, h, objs) == 0

\* Table::find_string
find_string(t, str, h, objs) ==
    IF t.len = 0 THEN 0
    ELSE FindStringLoop(t, str, h, objs, HashMod(h, t.capacity), 0)

----------------------------------------------------------------------------
(* The allocator (src/src/object.rs).  An allocator state is [objects,     *)
(* strings]; an operation returns it with the handle h it yields (Hang if  *)
(* a table probe never ends).                                              *)

\* Allocator::put_obj: the new object becomes the head of the object list
put_obj(objs, obj) == Append(objs, obj)

\* nothing of a boxed ObjString has been dropped
NotFreed == [obj |-> 0, str |-> 0]

\* Allocator::free, from `object` on (0 is the null pointer): the list runs
\* from its head, the newest object, along `next` to the oldest.
\* drop(Box::from_raw(object)) drops a Box<Object>, the pointer being a
\* *mut Object: the allocation is handed back (with the layout of Object,
\* which the system allocator does not look at), and the drop glue of
\* Object does not reach the `str` field of the ObjString
RECURSIVE free(_, _)
free(object, fr) ==
    IF object = 0 THEN fr
    ELSE free(object - 1, [fr EXCEPT ![object].obj = @ + 1])

\* a new_string_object that leaves the string out of the intern table
new_string_object_unregistered(al, str) ==
    LET objs == put_obj(al.objects, [str |-> str, hash |-> hash(str)])
    IN [objects |-> objs, strings |-> al.strings, h |-> Len(objs)]

\* Allocator::new_string_object
new_string_object(al, str) ==
    LET objs == put_obj(al.objects, [str |-> str, hash |-> hash(str)])
        obj == Len(objs)
    IN With([r \in {TableSet(al.strings, obj, Nil, objs)} |->
           [objects |-> objs, strings |-> r.t, h |-> IF r.hang THEN Hang ELSE obj]])

\* Allocator::copy_string
copy_string(al, str) ==
    With([interned \in {find_string(al.strings, str, hash(str), al.objects)} |->
        IF interned = Hang THEN [objects |-> al.objects, strings |-> al.strings, h |-> Hang]
        ELSE IF interned # 0
        THEN [objects |-> al.objects, strings |-> al.strings, h |-> interned]
        ELSE new_string_object(al, str)])

\* Allocator::take_string: interns an owned string
take_string(al, str) ==
    With([interned \in {find_string(al.strings, str, hash(str), al.objects)} |->
        IF interned = Hang THEN [objects |-> al.objects, strings |-> al.strings, h |-> Hang]
        ELSE IF interned # 0
        THEN [objects |-> al.objects, strings |-> al.strings, h |-> interned]
        ELSE new_string_object(al, str)])

\* Vm::run, OpCode::Add on two strings: take_string(format!("{str_a}{str_b}"))
add_strings(al, a, b) == take_string(al, al.objects[a].str \o al.objects[b].str)

\* Allocator::default
NewAllocator == [objects |-> <<>>, strings |-> NewTable]

RECURSIVE CopyAll(_, _, _)
\* copy_string of strs[i], strs[i+1], ... in this order
CopyAll(al, strs, i) ==
    IF i > Len(strs) THEN al
    ELSE With([r \in {copy_string(al, strs[i])} |->
         CopyAll([objects |-> r.objects, strings |-> r.strings], strs, i + 1)])

----------------------------------------------------------------------------
(* The scanner (src/src/scanner.rs).  The source is a sequence of bytes;   *)
(* a Scanner is [current, line], `current` the offset of the next byte.    *)
(* `start` is the offset scan_token sets after skipping whitespace.        *)
(* peek_next dereferences current + 1 whenever current is not the end, so  *)
(* it reads the byte after the source when current is the last byte: that  *)
(* byte is `oob`, whatever the memory after the source holds.              *)

NoneToken == [kind |-> "None", lex |-> <<>>, line |-> 0]

\* Scanner::new
NewScanner == [current |-> 0, line |-> 1]

\* fn is_alpha
is_alpha(c) == (c >= 97 /\ c <= 122) \/ (c >= 65 /\ c <= 90) \/ c = 95

\* u8::is_ascii_digit
is_ascii_digit(c) == c >= 48 /\ c <= 57

\* Scanner::is_at_end
is_at_end(src, sc) == sc.current = Len(src)

\* Scanner::peek_next, for a scanner that is not at the end
peek_next(src, sc, oob) ==
    IF sc.current + 1 < Len(src) THEN src[sc.current + 2] ELSE oob

\* Scanner::matches
ScanMatches(src, sc, expected) ==
    ~is_at_end(src, sc) /\ src[sc.current + 1] = expected

RECURSIVE CommentEnd(_, _)
\* while self.peek().map(|c| c != b'\n').unwrap_or_default() { self.advance(); }
CommentEnd(src, i) ==
    IF i < Len(src) /\ src[i + 1] # 10 THEN CommentEnd(src, i + 1) ELSE i

RECURSIVE skip_whitespace(_, _, _)
\* Scanner::skip_whitespace
skip_whitespace(src, sc, oob) ==
    IF is_at_end(src, sc) THEN sc
    ELSE LET c == src[sc.current + 1] IN
         IF c \in {32, 13, 9}
         THEN skip_whitespace(src, [sc EXCEPT !.current = @ + 1], oob)
         ELSE IF c = 10
         THEN skip_whitespace(src, [current |-> sc.current + 1, line |-> sc.line + 1], oob)
         ELSE IF c = 47 /\ peek_next(src, sc, oob) = 47
         THEN skip_whitespace(src, [sc EXCEPT !.current = CommentEnd(src, sc.current)], oob)
         ELSE sc

\* Scanner::make_token
make_token(src, start, sc, kind) ==
    [res |-> "Token", sc |-> sc,
     tok |-> [kind |-> kind, lex |-> SubSeq(src, start + 1, sc.current), line |-> sc.line]]

ScanError(sc, kind) ==
    [res |-> kind, sc |-> sc, tok |-> [kind |-> kind, lex |-> <<>>, line |-> sc.line]]

RECURSIVE StringLoop(_, _)
\* the while loop of Scanner::string: it advances over a newline only, so
\* on any other byte that is not the closing quote it never ends
StringLoop(src, sc) ==
    IF is_at_end(src, sc) \/ src[sc.current + 1] = 34 THEN [hang |-> FALSE, sc |-> sc]
    ELSE IF src[sc.current + 1] = 10
    THEN StringLoop(src, [current |-> sc.current + 1, line |-> sc.line + 1])
    ELSE [hang |-> TRUE, sc |-> sc]

\* Scanner::string
ScanString(src, start, sc) ==
    With([l \in {StringLoop(src, sc)} |->
        IF l.hang THEN ScanError(l.sc, "Hang")
        ELSE IF is_at_end(src, l.sc) THEN ScanError(l.sc, "UnterminatedString")
        ELSE make_token(src, start, [l.sc EXCEPT !.current = @ + 1], "String")])

RECURSIVE DigitsEnd(_, _)
\* while self.peek().map(|c| c.is_ascii_digit()).unwrap_or_default() { self.advance(); }
DigitsEnd(src, i) ==
    IF i < Len(src) /\ is_ascii_digit(src[i + 1]) THEN DigitsEnd(src, i + 1) ELSE i

\* Scanner::number
ScanNumber(src, start, sc, oob) ==
    With([sc1 \in {[sc EXCEPT !.current = DigitsEnd(src, sc.current)]} |->
        make_token(src, start,
                   IF /\ ~is_at_end(src, sc1)
                      /\ src[sc1.current + 1] = 46
                      /\ is_ascii_digit(peek_next(src, sc1, oob))
                   THEN [sc1 EXCEPT !.current = DigitsEnd(src, sc1.current + 1)]
                   ELSE sc1,
                   "Number")])

RECURSIVE IdentifierEnd(_, _)
\* the loop of Scanner::identifier
IdentifierEnd(src, i) ==
    IF i < Len(src) /\ (is_alpha(src[i + 1]) \/ is_ascii_digit(src[i + 1]))
    THEN IdentifierEnd(src, i + 1) ELSE i

\* a check_keyword that compares the rest of the keyword only, not the length
check_keyword_prefix(lex, check_idx, rest, kind) ==
    IF Len(lex) >= Len(rest) + check_idx
       /\ SubSeq(lex, check_idx + 1, check_idx + Len(rest)) = rest
    THEN kind ELSE "Identifier"

\* Scanner::check_keyword
check_keyword(lex, check_idx, rest, kind) ==
    IF Len(lex) = Len(rest) + check_idx /\ SubSeq(lex, check_idx + 1, Len(lex)) = rest
    THEN kind ELSE "Identifier"

\* Scanner::identifier_kind
identifier_kind(lex) ==
    CASE lex[1] = 97 -> check_keyword(lex, 1, <<110, 100>>, "And")
      [] lex[1] = 99 -> check_keyword(lex, 1, <<108, 97, 115, 115>>, "Class")
      [] lex[1] = 101 -> check_keyword(lex, 1, <<108, 115, 101>>, "Else")
      [] lex[1] = 102 /\ Len(lex) > 1 ->
            CASE lex[2] = 97 -> check_keyword(lex, 2, <<108, 115, 101>>, "False")
              [] lex[2] = 111 -> check_keyword(lex, 2, <<114>>, "For")
              [] lex[2] = 117 -> check_keyword(lex, 2, <<110>>, "Fun")
              [] OTHER -> "Identifier"
      [] lex[1] = 105 -> check_keyword(lex, 1, <<102>>, "If")
      [] lex[1] = 110 -> check_keyword(lex, 1, <<105, 108>>, "Nil")
      [] lex[1] = 111 -> check_keyword(lex, 1, <<114>>, "Or")
      [] lex[1] = 112 -> check_keyword(lex, 1, <<114, 105, 110, 116>>, "Print")
      [] lex[1] = 114 -> check_keyword(lex, 1, <<101, 116, 117, 114, 110>>, "Return")
      [] lex[1] = 115 -> check_keyword(lex, 1, <<117, 112, 101, 114>>, "Super")
      [] lex[1] = 116 /\ Len(lex) > 1 ->
            CASE lex[2] = 104 -> check_keyword(lex, 2, <<105, 115>>, "This")
              [] lex[2] = 114 -> check_keyword(lex, 2, <<117, 101>>, "True")
              [] OTHER -> "Identifier"
      [] lex[1] = 118 -> check_keyword(lex, 1, <<97, 114>>, "Var")
      [] lex[1] = 119 -> check_keyword(lex, 1, <<104, 105, 108, 101>>, "While")
      [] OTHER -> "Identifier"

\* Scanner::identifier
ScanIdentifier(src, start, sc) ==
    With([sc1 \in {[sc EXCEPT !.current = IdentifierEnd(src, sc.current)]} |->
        make_token(src, start, sc1, identifier_kind(SubSeq(src, start + 1, sc1.current)))])

\* the arms of scan_token that look ahead for '='
TwoByte(src, start, sc, with, without) ==
    IF ScanMatches(src, sc, 61)
    THEN make_token(src, start, [sc EXCEPT !.current = @ + 1], with)
    ELSE make_token(src, start, sc, without)

\* Scanner::scan_token: res is "Token", "None" (end of the source),
\* "UnexpectedCharacter", "UnterminatedString" or "Hang"
scan_token(src, sc0, oob) ==
    With([sc \in {skip_whitespace(src, sc0, oob)} |->
       IF is_at_end(src, sc) THEN [res |-> "None", sc |-> sc, tok |-> NoneToken]
       ELSE LET start == sc.current
                c == src[start + 1]
                sc1 == [sc EXCEPT !.current = @ + 1]
            IN CASE c = 40 -> make_token(src, start, sc1, "LeftParen")
                 [] c = 41 -> make_token(src, start, sc1, "RightParen")
                 [] c = 123 -> make_token(src, start, sc1, "LeftBrace")
                 [] c = 125 -> make_token(src, start, sc1, "RightBrace")
                 [] c = 59 -> make_token(src, start, sc1, "Semicolon")
                 [] c = 44 -> make_token(src, start, sc1, "Comma")
                 [] c = 46 -> make_token(src, start, sc1, "Dot")
                 [] c = 45 -> make_token(src, start, sc1, "Minus")
                 [] c = 43 -> make_token(src, start, sc1, "Plus")
                 [] c = 47 -> make_token(src, start, sc1, "Slash")
                 [] c = 42 -> make_token(src, start, sc1, "Star")
                 [] c = 33 -> TwoByte(src, start, sc1, "BangEqual", "Bang")
                 [] c = 61 -> TwoByte(src, start, sc1, "EqualEqual", "Equal")
                 [] c = 60 -> TwoByte(src, start, sc1, "LessEqual", "Less")
                 [] c = 62 -> TwoByte(src, start, sc1, "GreaterEqual", "Greater")
                 [] c = 34 -> ScanString(src, start, sc1)
                 [] is_ascii_digit(c) -> ScanNumber(src, start, sc1, oob)
                 [] is_alpha(c) -> ScanIdentifier(src, start, sc1)
                 [] OTHER -> ScanError(sc1, "UnexpectedCharacter")])

RECURSIVE SkipPeekNext(_, _, _)
\* the positions (from 0) that the peek_next calls of skip_whitespace
\* dereference: one for every `/` the loop meets, at current + 1
SkipPeekNext(src, sc, oob) ==
    IF is_at_end(src, sc) THEN {}
    ELSE LET c == src[sc.current + 1] IN
         IF c \in {32, 13, 9, 10}
         THEN SkipPeekNext(src, [sc EXCEPT !.current = @ + 1], oob)
         ELSE IF c = 47
         THEN {sc.current + 1} \cup
              (IF peek_next(src, sc, oob) = 47
               THEN SkipPeekNext(src, [sc EXCEPT !.current = CommentEnd(src, sc.current)], oob)
               ELSE {})
         ELSE {}

\* the position that the peek_next call of number dereferences: it is
\* called when the byte behind the digits is a `.`
NumberPeekNext(src, sc) ==
    With([end \in {DigitsEnd(src, sc.current)} |->
        IF end < Len(src) /\ src[end + 1] = 46 THEN {end + 1} ELSE {}])

\* the positions (from 0) of the bytes one scan_token call dereferences:
\* advance and matches read the bytes they consume, peek reads the byte
\* at current behind its own is_at_end test, peek_next reads current + 1
Dereferenced(src, sc0, oob) ==
    With([t \in {scan_token(src, sc0, oob)} |->
      With([first \in {skip_whitespace(src, sc0, oob)} |->
        {p \in sc0.current..(t.sc.current - 1) : TRUE}
            \cup (IF is_at_end(src, t.sc) THEN {} ELSE {t.sc.current})
            \cup SkipPeekNext(src, sc0, oob)
            \cup (IF ~is_at_end(src, first) /\ is_ascii_digit(src[first.current + 1])
                  THEN NumberPeekNext(src, [first EXCEPT !.current = @ + 1])
                  ELSE {})])])

----------------------------------------------------------------------------
(* Chunks (src/src/chunk.rs).  A Chunk is [code, constants, lines].  The   *)
(* opcodes chunk.rs declares keep their numbers; the opcodes the compiler  *)
(* and the VM use beyond them are numbered after them.                     *)

OpConstant == 0
OpAdd == 1
OpSubtract == 2
OpMultiply == 3
OpDivide == 4
OpNegate == 5
OpReturn == 6
OpNil == 7
OpTrue == 8
OpFalse == 9
OpPop == 10
OpDefineGlobal == 11
OpGetGlobal == 12
OpEqual == 13
OpGreater == 14
OpLess == 15
OpNot == 16
OpPrint == 17

\* Chunk::default
NewChunk == [code |-> <<>>, constants |-> <<>>, lines |-> <<>>]

\* Vec::resize_with(n, Default::default)
resize_with(v, n) ==
    IF Len(v) >= n THEN SubSeq(v, 1, n) ELSE v \o [i \in 1..(n - Len(v)) |-> 0]

\* Vec::insert(idx, x)
VecInsert(v, idx, x) == SubSeq(v, 1, idx) \o <<x>> \o SubSeq(v, idx + 1, Len(v))

\* Chunk::write
ChunkWrite(ch, byte, line) ==
    LET code == Append(ch.code, byte)
    IN [ch EXCEPT !.code = code,
                  !.lines = VecInsert(resize_with(ch.lines, Len(code)), Len(code) - 1, line)]

\* Chunk::write_constant: the chunk with v appended; the index returned is
\* Len(constants) - 1 of the result
write_constant(ch, v) == [ch EXCEPT !.constants = Append(@, v)]

\* the largest index u8::try_from accepts
U8Max == 255

----------------------------------------------------------------------------
(* The compiler (src/src/compiler.rs).  A Compiler is a record: src and    *)
(* oob (the source, and the byte behind it), sc (the Scanner), chunk,      *)
(* previous and current (the Parser), had_error, panic_mode, al (the       *)
(* Allocator), and the outcome of the last method: r (Ok or the Error), m  *)
(* (the bool of matches), idx (the u8 of make_constant).  A method whose   *)
(* outcome is an Error is left at once, as `?` does.                       *)

PrecNone == 0
PrecAssignment == 1
PrecEquality == 4
PrecComparison == 5
PrecTerm == 6
PrecFactor == 7
PrecUnary == 8

Ok == [kind |-> "Ok", token |-> "", after |-> ""]
Error(kind) == [kind |-> kind, token |-> "", after |-> ""]
ExpectedToken(token, after) == [kind |-> "ExpectedToken", token |-> token, after |-> after]

\* Compiler::new
NewCompiler(src, al, oob) ==
    [src |-> src, oob |-> oob, sc |-> NewScanner, chunk |-> NewChunk,
     previous |-> NoneToken, current |-> NoneToken,
     had_error |-> FALSE, panic_mode |-> FALSE, al |-> al,
     r |-> Ok, m |-> FALSE, idx |-> 0, reported |-> 0]

RECURSIVE AdvanceLoop(_)
\* the loop of Compiler::advance, and the test of had_error after it
AdvanceLoop(c) ==
    With([t \in {scan_token(c.src, c.sc, c.oob)} |->
        IF t.res = "Hang" THEN [c EXCEPT !.sc = t.sc, !.r = Error("Hang")]
        ELSE IF t.res \in {"Token", "None"}
        THEN [c EXCEPT !.sc = t.sc, !.current = t.tok,
                       !.r = IF c.had_error THEN Error("ParserError") ELSE Ok]
        ELSE AdvanceLoop([c EXCEPT !.sc = t.sc, !.panic_mode = TRUE, !.had_error = TRUE,
                                   !.reported = IF c.panic_mode THEN @ ELSE @ + 1])])

\* Compiler::advance
advance(c) == AdvanceLoop([c EXCEPT !.previous = c.current])

\* Compiler::check
check(c, kind) == c.current.kind = kind

\* a consume that advances whatever the current token is
consume_unchecked(c, kind, err) == advance(c)

\* Compiler::consume
consume(c, kind, err) == IF c.current.kind = kind THEN advance(c) ELSE [c EXCEPT !.r = err]

\* Compiler::matches
matches(c, kind) ==
    IF ~check(c, kind) THEN [c EXCEPT !.m = FALSE]
    ELSE [advance(c) EXCEPT !.m = TRUE]

\* an emit_byte that records the line of the current token
emit_byte_current_line(c, byte) ==
    LET line == IF c.current.kind = "None" THEN 0 ELSE c.current.line
    IN [c EXCEPT !.chunk = ChunkWrite(c.chunk, byte, line)]

\* Compiler::emit_byte
emit_byte(c, byte) ==
    LET line == IF c.previous.kind = "None" THEN 0 ELSE c.previous.line
    IN [c EXCEPT !.chunk = ChunkWrite(c.chunk, byte, line)]

\* Compiler::emit_bytes, of two bytes
emit_bytes(c, b1, b2) == emit_byte(emit_byte(c, b1), b2)

\* a make_constant whose chunk takes one constant less
make_constant_one_less(c, v) ==
    With([ch \in {write_constant(c.chunk, v)} |->
        LET const_idx == Len(ch.constants) - 1
        IN IF const_idx >= U8Max THEN [c EXCEPT !.chunk = ch, !.r = Error("TooManyConstants")]
           ELSE [c EXCEPT !.chunk = ch, !.idx = const_idx]])

\* a make_constant that checks the index before the chunk takes the constant
make_constant_checks_first(c, v) ==
    IF Len(c.chunk.constants) > U8Max THEN [c EXCEPT !.r = Error("TooManyConstants")]
    ELSE With([ch \in {write_constant(c.chunk, v)} |->
             [c EXCEPT !.chunk = ch, !.idx = Len(ch.constants) - 1]])

\* Compiler::make_constant
make_constant(c, v) ==
    With([ch \in {write_constant(c.chunk, v)} |->
        LET const_idx == Len(ch.constants) - 1
        IN IF const_idx > U8Max THEN [c EXCEPT !.chunk = ch, !.r = Error("TooManyConstants")]
           ELSE [c EXCEPT !.chunk = ch, !.idx = const_idx]])

\* Compiler::emit_constant
emit_constant(c, v) ==
    With([c1 \in {make_constant(c, v)} |->
        IF c1.r # Ok THEN c1 ELSE emit_bytes(c1, OpConstant, c1.idx)])

\* Compiler::emit_return and Compiler::end_compiler
end_compiler(c) == emit_byte(c, OpReturn)

\* self.objects.copy_string(str), the handle left in idx
CompilerCopyString(c, str) ==
    With([a \in {copy_string(c.al, str)} |->
        IF a.h = Hang THEN [c EXCEPT !.r = Error("Hang")]
        ELSE [c EXCEPT !.al = [objects |-> a.objects, strings |-> a.strings], !.idx = a.h]])

RECURSIVE ParseDigits(_, _, _)
\* the decimal digits lex[i..], read as an integer after acc
ParseDigits(lex, i, acc) ==
    IF i > Len(lex) THEN acc
    ELSE IF lex[i] = 46 THEN ParseDigits(lex, i + 1, acc)
    ELSE ParseDigits(lex, i + 1, 10 * acc + (lex[i] - 48))

RECURSIVE Pow10(_)
Pow10(n) == IF n = 0 THEN 1 ELSE 10 * Pow10(n - 1)

RECURSIVE DotAt(_, _)
\* the position of '.' in lex at or after i, 0 when there is none
DotAt(lex, i) == IF i > Len(lex) THEN 0 ELSE IF lex[i] = 46 THEN i ELSE DotAt(lex, i + 1)

\* str::parse::<f64> of a Number lexeme (digits, optionally '.' and digits)
ParseNumber(lex) ==
    LET dot == DotAt(lex, 1)
    IN Number(ParseDigits(lex, 1, 0), IF dot = 0 THEN 1 ELSE Pow10(Len(lex) - dot))

\* Compiler::number
CompileNumber(c) == emit_constant(c, ParseNumber(c.previous.lex))

\* the payload of TokenKind::String: the lexeme without its quotes
StringPayload(tok) == SubSeq(tok.lex, 2, Len(tok.lex) - 1)

\* Compiler::string
CompileString(c) ==
    With([c1 \in {CompilerCopyString(c, StringPayload(c.previous))} |->
        IF c1.r # Ok THEN c1 ELSE emit_constant(c1, Object(c1.idx))])

\* Compiler::literal
literal(c) ==
    emit_byte(c, CASE c.previous.kind = "Nil" -> OpNil
                   [] c.previous.kind = "False" -> OpFalse
                   [] c.previous.kind = "True" -> OpTrue)

\* Compiler::identifier_constant
identifier_constant(c, var_ident) == make_constant(c, Object(var_ident))

\* Compiler::named_variable
named_variable(c, name) ==
    With([c1 \in {identifier_constant(c, name)} |->
        IF c1.r # Ok THEN c1 ELSE emit_bytes(c1, OpGetGlobal, c1.idx)])

\* Compiler::variable
variable(c) ==
    With([c1 \in {CompilerCopyString(c, c.previous.lex)} |->
        IF c1.r # Ok THEN c1 ELSE named_variable(c1, c1.idx)])

\* Compiler::get_rule
get_rule(kind) ==
    CASE kind = "LeftParen" -> [prefix |-> "grouping", infix |-> "", precedence |-> PrecNone]
      [] kind = "Minus" -> [prefix |-> "unary", infix |-> "binary", precedence |-> PrecTerm]
      [] kind = "Plus" -> [prefix |-> "", infix |-> "binary", precedence |-> PrecTerm]
      [] kind \in {"Slash", "Star"} ->
            [prefix |-> "", infix |-> "binary", precedence |-> PrecFactor]
      [] kind = "Bang" -> [prefix |-> "unary", infix |-> "", precedence |-> PrecNone]
      [] kind \in {"BangEqual", "EqualEqual"} ->
            [prefix |-> "", infix |-> "binary", precedence |-> PrecEquality]
      [] kind \in {"Greater", "GreaterEqual", "Less", "LessEqual"} ->
            [prefix |-> "", infix |-> "binary", precedence |-> PrecComparison]
      [] kind = "Identifier" -> [prefix |-> "variable", infix |-> "", precedence |-> PrecNone]
      [] kind = "String" -> [prefix |-> "string", infix |-> "", precedence |-> PrecNone]
      [] kind = "Number" -> [prefix |-> "number", infix |-> "", precedence |-> PrecNone]
      [] kind \in {"False", "Nil", "True"} ->
            [prefix |-> "literal", infix |-> "", precedence |-> PrecNone]
      [] OTHER -> [prefix |-> "", infix |-> "", precedence |-> PrecNone]

\* the opcodes Compiler::binary emits for an operator
BinaryOps(operator_kind) ==
    CASE operator_kind = "Plus" -> <<OpAdd>>
      [] operator_kind = "Minus" -> <<OpSubtract>>
      [] operator_kind = "Star" -> <<OpMultiply>>
      [] operator_kind = "Slash" -> <<OpDivide>>
      [] operator_kind = "BangEqual" -> <<OpEqual, OpNot>>
      [] operator_kind = "EqualEqual" -> <<OpEqual>>
      [] operator_kind = "Greater" -> <<OpGreater>>
      [] operator_kind = "GreaterEqual" -> <<OpLess, OpNot>>
      [] operator_kind = "Less" -> <<OpLess>>
      [] operator_kind = "LessEqual" -> <<OpGreater, OpNot>>

RECURSIVE parse_precedence(_, _)
RECURSIVE InfixLoop(_, _)

\* Compiler::expression
expression(c) == parse_precedence(c, PrecAssignment)

\* Compiler::grouping
grouping(c) ==
    With([c1 \in {expression(c)} |->
        IF c1.r # Ok THEN c1
        ELSE consume(c1, "RightParen", ExpectedToken(")", "expression"))])

\* Compiler::unary
unary(c) ==
    LET op_kind == c.previous.kind IN
    With([c1 \in {parse_precedence(c, PrecUnary)} |->
        IF c1.r # Ok THEN c1
        ELSE emit_byte(c1, IF op_kind = "Minus" THEN OpNegate ELSE OpNot)])

\* a binary that parses its right operand at the precedence of the operator
binary_same_precedence(c) ==
    LET operator_kind == c.previous.kind
        ops == BinaryOps(operator_kind)
    IN With([c1 \in {parse_precedence(c, get_rule(operator_kind).precedence)} |->
           IF c1.r # Ok THEN c1
           ELSE IF Len(ops) = 1 THEN emit_byte(c1, ops[1])
           ELSE emit_bytes(c1, ops[1], ops[2])])

\* Compiler::binary
binary(c) ==
    LET operator_kind == c.previous.kind
        ops == BinaryOps(operator_kind)
    IN With([c1 \in {parse_precedence(c, get_rule(operator_kind).precedence + 1)} |->
           IF c1.r # Ok THEN c1
           ELSE IF Len(ops) = 1 THEN emit_byte(c1, ops[1])
           ELSE emit_bytes(c1, ops[1], ops[2])])

\* a call through a ParseFn
CallRule(fn, c) ==
    CASE fn = "grouping" -> grouping(c)
      [] fn = "unary" -> unary(c)
      [] fn = "binary" -> binary(c)
      [] fn = "variable" -> variable(c)
      [] fn = "string" -> CompileString(c)
      [] fn = "number" -> CompileNumber(c)
      [] fn = "literal" -> literal(c)

\* the loop of Compiler::parse_precedence
InfixLoop(c, precedence) ==
    IF c.current.kind = "None" \/ precedence > get_rule(c.current.kind).precedence THEN c
    ELSE With([c1 \in {advance(c)} |->
         IF c1.r # Ok THEN c1
         ELSE With([c2 \in {CallRule(get_rule(c1.previous.kind).infix, c1)} |->
              IF c2.r # Ok THEN c2 ELSE InfixLoop(c2, precedence)])])

\* Compiler::parse_precedence
parse_precedence(c, precedence) ==
    With([c1 \in {advance(c)} |->
        IF c1.r # Ok THEN c1
        ELSE LET prefix_rule == get_rule(c1.previous.kind).prefix IN
             IF prefix_rule = "" THEN [c1 EXCEPT !.r = Error("ExpectedExpression")]
             ELSE With([c2 \in {CallRule(prefix_rule, c1)} |->
                  IF c2.r # Ok THEN c2 ELSE InfixLoop(c2, precedence)])])

\* Compiler::parse_variable
parse_variable(c, err_msg) ==
    IF c.current.kind # "Identifier" THEN [c EXCEPT !.r = err_msg]
    ELSE With([c1 \in {CompilerCopyString(c, c.current.lex)} |->
         IF c1.r # Ok THEN c1
         ELSE With([c2 \in {advance(c1)} |->
              IF c2.r # Ok THEN c2 ELSE identifier_constant(c2, c1.idx)])])

\* Compiler::define_variable
define_variable(c, global) == emit_bytes(c, OpDefineGlobal, global)

\* Compiler::var_declaration
var_declaration(c) ==
    With([c1 \in {parse_variable(c, Error("ExpectedVariableName"))} |->
        IF c1.r # Ok THEN c1
        ELSE LET global == c1.idx IN
        With([c2 \in {matches(c1, "Equal")} |->
        IF c2.r # Ok THEN c2
        ELSE
        With([c3 \in {IF c2.m THEN expression(c2) ELSE emit_byte(c2, OpNil)} |->
        IF c3.r # Ok THEN c3
        ELSE
        With([c4 \in {consume(c3, "Semicolon",
                              ExpectedToken(";", "variable declaration"))} |->
        IF c4.r # Ok THEN c4 ELSE define_variable(c4, global)])])])])

\* Compiler::print_statement
print_statement(c) ==
    With([c1 \in {expression(c)} |->
        IF c1.r # Ok THEN c1
        ELSE With([c2 \in {consume(c1, "Semicolon", ExpectedToken(";", "value"))} |->
             IF c2.r # Ok THEN c2 ELSE emit_byte(c2, OpPrint)])])

\* Compiler::expression_statement
expression_statement(c) ==
    With([c1 \in {expression(c)} |->
        IF c1.r # Ok THEN c1
        ELSE With([c2 \in {consume(c1, "Semicolon", ExpectedToken(";", "expression"))} |->
             IF c2.r # Ok THEN c2 ELSE emit_byte(c2, OpPop)])])

\* Compiler::statement
statement(c) ==
    With([c1 \in {matches(c, "Print")} |->
        IF c1.r # Ok THEN c1
        ELSE IF c1.m THEN print_statement(c1) ELSE expression_statement(c1)])

RECURSIVE SynchronizeLoop(_)
\* the loop of Compiler::synchronize
SynchronizeLoop(c) ==
    IF c.current.kind = "None" THEN c
    ELSE IF c.previous.kind = "Semicolon" THEN c
    ELSE IF c.current.kind \in {"Class", "Fun", "Var", "For", "If", "While", "Print", "Return"}
    THEN c
    ELSE With([c1 \in {advance(c)} |->
         IF c1.r # Ok THEN c1 ELSE SynchronizeLoop(c1)])

\* Compiler::synchronize
synchronize(c) == SynchronizeLoop([c EXCEPT !.panic_mode = FALSE, !.r = Ok])

\* Compiler::declaration
declaration(c) ==
    With([c1 \in {matches(c, "Var")} |->
        IF c1.r # Ok THEN c1
        ELSE With([res \in {IF c1.m THEN var_declaration(c1) ELSE statement(c1)} |->
             IF res.r.kind = "ParserError" /\ res.panic_mode THEN synchronize(res)
             ELSE res])])

RECURSIVE DeclarationLoop(_)
\* while !self.matches(None)? { self.declaration()?; }
DeclarationLoop(c) ==
    With([c1 \in {matches(c, "None")} |->
        IF c1.r # Ok \/ c1.m THEN c1
        ELSE With([c2 \in {declaration(c1)} |->
             IF c2.r # Ok THEN c2 ELSE DeclarationLoop(c2)])])

\* compiler::compile
compile(src, al, oob) ==
    With([c1 \in {advance(NewCompiler(src, al, oob))} |->
        IF c1.r # Ok THEN c1
        ELSE With([c2 \in {DeclarationLoop(c1)} |->
             IF c2.r # Ok THEN c2 ELSE end_compiler(c2)])])

----------------------------------------------------------------------------
(* Numbers.  An f64 is modelled by the exact rational it stands for (or    *)
(* one of the specials), so a result is the real-number result, not        *)
(* rounded to 53 bits; -0.0 is not told apart from 0.0.                    *)

NaN == Number(0, 0)

\* -f64
NumNeg(x) == [x EXCEPT !.a = -@]

\* f64 + f64
NumAdd(x, y) ==
    IF x = NaN \/ y = NaN THEN NaN
    ELSE IF x.b = 0 /\ y.b = 0 THEN (IF x.a = y.a THEN x ELSE NaN)
    ELSE IF x.b = 0 THEN x
    ELSE IF y.b = 0 THEN y
    ELSE Number(x.a * y.b + y.a * x.b, x.b * y.b)

\* f64 - f64
NumSub(x, y) == NumAdd(x, NumNeg(y))

\* f64 * f64
NumMul(x, y) ==
    IF x = NaN \/ y = NaN THEN NaN
    ELSE IF x.b = 0 \/ y.b = 0 THEN Number(x.a * y.a, 0)
    ELSE Number(x.a * y.a, x.b * y.b)

\* f64 / f64
NumDiv(x, y) ==
    IF x = NaN \/ y = NaN THEN NaN
    ELSE IF y.b = 0 THEN (IF x.b = 0 THEN NaN ELSE Number(0, 1))
    ELSE IF x.b = 0 THEN Number(x.a * (IF y.a < 0 THEN -1 ELSE 1), 0)
    ELSE Number(x.a * y.b, x.b * y.a)

\* f64 < f64
NumLess(x, y) ==
    IF x = NaN \/ y = NaN THEN FALSE
    ELSE IF x.b = 0 THEN x.a = -1 /\ y # x
    ELSE IF y.b = 0 THEN y.a = 1
    ELSE x.a * y.b < y.a * x.b

\* f64 > f64
NumGreater(x, y) == NumLess(y, x)

RECURSIVE Digits(_)
\* the decimal digits of a natural number
Digits(n) == IF n < 10 THEN <<48 + n>> ELSE Digits(n \div 10) \o <<48 + (n % 10)>>

\* the number of fraction digits written for a value with no finite expansion
FracLimit == 16

RECURSIVE FracDigits(_, _, _)
\* the digits of rem / d after the decimal point
FracDigits(rem, d, n) ==
    IF rem = 0 \/ n = 0 THEN <<>>
    ELSE <<48 + ((rem * 10) \div d)>> \o FracDigits((rem * 10) % d, d, n - 1)

\* impl Display for f64: the shortest decimal that reads back as the value
DisplayNumber(v) ==
    IF v.b = 0
    THEN (IF v.a = 0 THEN <<78, 97, 78>>
          ELSE IF v.a > 0 THEN <<105, 110, 102>> ELSE <<45, 105, 110, 102>>)
    ELSE LET n == Abs(v.a)
             frac == FracDigits(n % v.b, v.b, FracLimit)
         IN (IF v.a < 0 THEN <<45>> ELSE <<>>) \o Digits(n \div v.b)
            \o (IF frac = <<>> THEN <<>> ELSE <<46>> \o frac)

\* impl Display for Value; an Object displays the bytes of its string
Display(v, objs) ==
    CASE v.t = TagNil -> <<110, 105, 108>>
      [] v.t = TagBool -> IF v.a = 1 THEN <<116, 114, 117, 101>> ELSE <<102, 97, 108, 115, 101>>
      [] v.t = TagNumber -> DisplayNumber(v)
      [] v.t = TagObject -> objs[v.a].str

----------------------------------------------------------------------------
(* The VM (src/src/vm.rs).  What interpret returns is a record: kind is    *)
(* "Ok", "Compile", "Runtime", "GenericRuntime", "UnknownOpCode" or        *)
(* "Panic"; "none" while no call has returned.                             *)

NoResult ==
    [kind |-> "none", err |-> "", token |-> "", after |-> "", value |-> Nil,
     name |-> <<>>, line |-> 0, values |-> <<>>]

OkResult(v) == [NoResult EXCEPT !.kind = "Ok", !.value = v]

\* InterpretError::Compile
CompileError(e) ==
    [NoResult EXCEPT !.kind = "Compile", !.err = e.kind, !.token = e.token, !.after = e.after]

\* InterpretError::Runtime { source, line }
RuntimeError(err, values, name, line) ==
    [NoResult EXCEPT !.kind = "Runtime", !.err = err, !.values = values, !.name = name,
                     !.line = line]

\* Chunk::decode_instruction; kind is "None", "Err" (UnknownOpCode) or "Ok"
decode_instruction(ch, offset) ==
    IF offset >= Len(ch.code) THEN [kind |-> "None", opcode |-> 0, v |-> Nil, len |-> 0]
    ELSE LET opcode == ch.code[offset + 1] IN
         IF opcode > OpPrint THEN [kind |-> "Err", opcode |-> opcode, v |-> Nil, len |-> 0]
         ELSE IF opcode \in {OpConstant, OpDefineGlobal, OpGetGlobal}
         THEN IF offset + 1 >= Len(ch.code) \/ ch.code[offset + 2] >= Len(ch.constants)
              THEN [kind |-> "None", opcode |-> 0, v |-> Nil, len |-> 0]
              ELSE [kind |-> "Ok", opcode |-> opcode,
                    v |-> ch.constants[ch.code[offset + 2] + 1], len |-> 2]
         ELSE [kind |-> "Ok", opcode |-> opcode, v |-> Nil, len |-> 1]

(* The state Vm::run works on is the record vm: stack, out, globals, al,   *)
(* defined, underflow (an instruction other than Return found the stack    *)
(* empty), n (the number pop_number returned), res (what run returns,      *)
(* NoResult while it goes on) and hang.                                    *)

Push(vm, v) == [vm EXCEPT !.stack = Append(@, v)]
Top(vm) == vm.stack[Len(vm.stack)]
PopStack(vm) == [vm EXCEPT !.stack = SubSeq(@, 1, Len(@) - 1)]
Finish(vm, res) == [vm EXCEPT !.res = res]

\* self.stack.pop().ok_or(InterpretError::GenericRuntime)? on an empty stack
GenericRuntime(vm) ==
    [vm EXCEPT !.res = [NoResult EXCEPT !.kind = "GenericRuntime"], !.underflow = TRUE]

\* a pop_number that takes whatever it pops for a number
pop_number_unchecked(vm, line) ==
    IF vm.stack = <<>> THEN GenericRuntime(vm)
    ELSE [PopStack(vm) EXCEPT !.n = Top(vm)]

\* Vm::pop_number
pop_number(vm, line) ==
    IF vm.stack = <<>> THEN GenericRuntime(vm)
    ELSE LET v == Top(vm)
             vm1 == PopStack(vm)
         IN IF v.t = TagNumber THEN [vm1 EXCEPT !.n = v]
            ELSE Finish(vm1, RuntimeError("InvalidType", <<v>>, <<>>, line))

\* what a two-number arm of Vm::run pushes for value_a and value_b
NumericResult(opcode, a, b) ==
    CASE opcode = OpGreater -> Bool(NumGreater(a, b))
      [] opcode = OpLess -> Bool(NumLess(a, b))
      [] opcode = OpSubtract -> NumSub(a, b)
      [] opcode = OpMultiply -> NumMul(a, b)
      [] opcode = OpDivide -> NumDiv(a, b)

\* the arms of Vm::run that pop two numbers: Greater, Less, Subtract,
\* Multiply and Divide
BinaryNumeric(vm, line, opcode) ==
    With([value_b \in {pop_number(vm, line)} |->
        IF value_b.res # NoResult THEN value_b
        ELSE With([value_a \in {pop_number(value_b, line)} |->
             IF value_a.res # NoResult THEN value_a
             ELSE Push(value_a, NumericResult(opcode, value_a.n, value_b.n))])])

\* Vm::run, OpCode::Equal
RunEqual(vm) ==
    IF vm.stack = <<>> THEN GenericRuntime(vm)
    ELSE LET value_b == Top(vm)
             vm1 == PopStack(vm)
         IN IF vm1.stack = <<>> THEN GenericRuntime(vm1)
            ELSE Push(PopStack(vm1), Bool(ValueEq(Top(vm1), value_b)))

\* Vm::run, OpCode::Add
RunAdd(vm, line) ==
    IF vm.stack = <<>> THEN GenericRuntime(vm)
    ELSE LET value_b == Top(vm)
             vm1 == PopStack(vm)
         IN IF vm1.stack = <<>> THEN GenericRuntime(vm1)
            ELSE LET value_a == Top(vm1)
                     vm2 == PopStack(vm1)
                 IN IF value_a.t = TagNumber /\ value_b.t = TagNumber
                    THEN Push(vm2, NumAdd(value_a, value_b))
                    ELSE IF value_a.t = TagObject /\ value_b.t = TagObject
                    THEN With([r \in {add_strings(vm2.al, value_a.a, value_b.a)} |->
                         IF r.h = Hang THEN [vm2 EXCEPT !.hang = TRUE]
                         ELSE Push([vm2 EXCEPT !.al = [objects |-> r.objects,
                                                        strings |-> r.strings]],
                                   Object(r.h))])
                    ELSE Finish(vm2, RuntimeError("InvalidTypes", <<value_a, value_b>>,
                                                  <<>>, line))

\* Vm::run, OpCode::Not
RunNot(vm) ==
    IF vm.stack = <<>> THEN GenericRuntime(vm)
    ELSE Push(PopStack(vm), Bool(is_falsey(Top(vm))))

\* Vm::run, OpCode::Negate
RunNegate(vm, line) ==
    With([value \in {pop_number(vm, line)} |->
        IF value.res # NoResult THEN value ELSE Push(value, NumNeg(value.n))])

\* a Print that ends what it writes with a line feed
RunPrintLine(vm) ==
    IF vm.stack = <<>> THEN GenericRuntime(vm)
    ELSE [PopStack(vm) EXCEPT !.out = @ \o Display(Top(vm), vm.al.objects) \o <<10>>]

\* Vm::run, OpCode::Print
RunPrint(vm) ==
    IF vm.stack = <<>> THEN GenericRuntime(vm)
    ELSE [PopStack(vm) EXCEPT !.out = @ \o Display(Top(vm), vm.al.objects)]

\* Vm::run, OpCode::Pop
RunPop(vm) == IF vm.stack = <<>> THEN GenericRuntime(vm) ELSE PopStack(vm)

\* the binding name -> value added to the bindings d
Bind(d, name, value) ==
    [n \in (DOMAIN d) \cup {name} |-> IF n = name THEN value ELSE d[n]]

\* Vm::run, OpCode::DefineGlobal
RunDefineGlobal(vm, v) ==
    IF v.t # TagObject \/ vm.stack = <<>>
    THEN [vm EXCEPT !.res = [NoResult EXCEPT !.kind = "Panic"],
                    !.underflow = @ \/ vm.stack = <<>>]
    ELSE With([r \in {TableSet(vm.globals, v.a, Top(vm), vm.al.objects)} |->
         IF r.hang THEN [vm EXCEPT !.hang = TRUE]
         ELSE [PopStack(vm) EXCEPT !.globals = r.t,
                                   !.defined = Bind(@, vm.al.objects[v.a].str, Top(vm))]])

\* Vm::run, OpCode::GetGlobal
RunGetGlobal(vm, v, line) ==
    IF v.t # TagObject THEN Finish(vm, [NoResult EXCEPT !.kind = "Panic"])
    ELSE With([value \in {TableGet(vm.globals, v.a, vm.al.objects)} |->
         IF value.hang THEN [vm EXCEPT !.hang = TRUE]
         ELSE IF ~value.some
         THEN Finish(vm, RuntimeError("UndefinedVariable", <<>>, vm.al.objects[v.a].str, line))
         ELSE Push(vm, value.v)])

\* Vm::run, OpCode::Return
RunReturn(vm) ==
    IF vm.stack = <<>> THEN Finish(vm, OkResult(Nil))
    ELSE Finish(PopStack(vm), OkResult(Top(vm)))

\* the body of the loop of Vm::run for the instruction ins at offset
run_instruction(vm, ch, ins, offset) ==
    LET line == ch.lines[offset + 1] IN
    CASE ins.opcode = OpReturn -> RunReturn(vm)
      [] ins.opcode = OpNil -> Push(vm, Nil)
      [] ins.opcode = OpFalse -> Push(vm, Bool(FALSE))
      [] ins.opcode = OpTrue -> Push(vm, Bool(TRUE))
      [] ins.opcode = OpEqual -> RunEqual(vm)
      [] ins.opcode = OpGreater -> BinaryNumeric(vm, line, OpGreater)
      [] ins.opcode = OpLess -> BinaryNumeric(vm, line, OpLess)
      [] ins.opcode = OpAdd -> RunAdd(vm, line)
      [] ins.opcode = OpSubtract -> BinaryNumeric(vm, line, OpSubtract)
      [] ins.opcode = OpMultiply -> BinaryNumeric(vm, line, OpMultiply)
      [] ins.opcode = OpDivide -> BinaryNumeric(vm, line, OpDivide)
      [] ins.opcode = OpNot -> RunNot(vm)
      [] ins.opcode = OpNegate -> RunNegate(vm, line)
      [] ins.opcode = OpPrint -> RunPrint(vm)
      [] ins.opcode = OpPop -> RunPop(vm)
      [] ins.opcode = OpConstant -> Push(vm, ins.v)
      [] ins.opcode = OpDefineGlobal -> RunDefineGlobal(vm, ins.v)
      [] ins.opcode = OpGetGlobal -> RunGetGlobal(vm, ins.v, line)

\* one turn of the loop of Vm::run
run_step(vm, ch, offset) ==
    With([ins \in {decode_instruction(ch, offset)} |->
        IF ins.kind = "None" THEN Finish(vm, OkResult(Nil))
        ELSE IF ins.kind = "Err" THEN Finish(vm, [NoResult EXCEPT !.kind = "UnknownOpCode"])
        ELSE run_instruction(vm, ch, ins, offset)])

----------------------------------------------------------------------------
(* Initial values of the parts of the state a specification leaves alone.  *)

NoChunk == NewChunk
NoCall ==
    [source |-> <<>>, status |-> "none", out0 |-> 0, stack0 |-> <<>>, globals0 |-> NewTable,
     compiled |-> Ok, underflow |-> FALSE]

NoLast == [op |-> "none", h |-> 0]

\* main is not running
NoRepl ==
    [at |-> "none", line |-> <<>>, lines |-> 0, eof |-> FALSE, exit |-> "none", expr |-> <<>>]

\* no scanner is driven directly
NoScan ==
    [src |-> <<>>, oob |-> 0, sc |-> NewScanner, res |-> "none", tok |-> NoneToken,
     start |-> 0, n |-> 0, reads |-> {}]

\* no set / delete call has returned
NoReturn == [op |-> "none", ret |-> FALSE, slot |-> "none"]

\* no compile call is driven directly
NoCompile == [status |-> "none", c |-> NewCompiler(<<>>, NewAllocator, 0), decls |-> 0]

AllocInit ==
    /\ objects = <<>>
    /\ strings = NewTable
    /\ freed = <<>>
    /\ calls = {}
    /\ last = NoLast

TableInit ==
    /\ table = NewTable
    /\ tmap = <<>>
    /\ nops = 0
    /\ tret = NoReturn

VmInit ==
    /\ globals = NewTable
    /\ stack = <<>>
    /\ out = <<>>
    /\ chunk = NoChunk
    /\ ip = 0
    /\ result = NoResult
    /\ cur = NoCall
    /\ defined = <<>>
    /\ hist = <<>>
    /\ comp = NoCompile
    /\ scan = NoScan
    /\ repl = NoRepl

----------------------------------------------------------------------------
(* SpecTable: one Table driven by set, delete and get, with the keys of    *)
(* KeyPool interned beforehand.  tmap[k] is the value of the last set(k,_) *)
(* that no delete(k) followed, NoValue when there is none.                 *)

\* "e" "f" "c" "d" "a" "i" "g" "h": their hashes fall on the slots
\* 0 1 2 3 4 4 6 7 of a table of capacity 8 ("a" and "i" collide)
KeyPool == << <<101>>, <<102>>, <<99>>, <<100>>, <<97>>, <<105>>, <<103>>, <<104>> >>
\* the values set() is called with: two for the colliding keys, one for the rest
TableValues(key) == IF key \in {5, 6} THEN {Nil, Bool(TRUE)} ELSE {Nil}
NoValue == [t |-> -1, a |-> 0, b |-> 0]

Keys == 1..Len(objects)

\* the number of set / delete calls a behaviour makes
MaxOps == 8

RECURSIVE AfterCalls(_, _, _, _)
\* the table and the map the calls script[i], script[i+1], ... leave: a
\* call <<key, value>> is set(key, value), a call <<key>> is delete(key)
AfterCalls(r, script, objs, i) ==
    IF i > Len(script) THEN r
    ELSE LET call == script[i]
             key == call[1]
         IN IF Len(call) = 2
            THEN AfterCalls([t |-> TableSet(r.t, key, call[2], objs).t,
                             m |-> [r.m EXCEPT ![key] = call[2]]], script, objs, i + 1)
            ELSE AfterCalls([t |-> TableDelete(r.t, key, objs).t,
                             m |-> [r.m EXCEPT ![key] = NoValue]], script, objs, i + 1)

\* set("a"), then delete of the seven keys never set: every delete turns
\* the empty slot its probe ends on into a tombstone, and the eight slots
\* are "a" and seven tombstones
FillCalls == << <<5, Nil>>, <<1>>, <<2>>, <<3>>, <<4>>, <<6>>, <<7>>, <<8>> >>

\* the calls made on the table before the behaviour starts
InitialCalls == {<<>>, FillCalls}

InitTable ==
    /\ \E al \in {CopyAll(NewAllocator, KeyPool, 1)} :
          /\ objects = al.objects
          /\ strings = al.strings
          /\ \E script \in InitialCalls :
             \E r \in {AfterCalls([t |-> NewTable, m |-> [i \in 1..Len(KeyPool) |-> NoValue]],
                                   script, al.objects, 1)} :
                /\ table = r.t
                /\ tmap = r.m
    /\ freed = [i \in 1..Len(KeyPool) |-> NotFreed]
    /\ calls = {}
    /\ last = NoLast
    /\ nops = 0
    /\ tret = NoReturn
    /\ VmInit
    /\ pc = "idle"

\* the slot array set(key, _) writes into when it is called on t and
\* returns t2: that of t, or the one adjust_capacity has just built
SetArray(t, t2, objs) ==
    IF t2.capacity = t.capacity THEN t.entries
    ELSE adjust_capacity(t, t2.capacity, objs).t.entries

\* what the slot that holds key in t2 held in the array set wrote into
PrevEntry(t, t2, key, objs) ==
    SetArray(t, t2, objs)[CHOOSE i \in 1..t2.capacity : t2.entries[i].key = key]

\* "empty" (never used), "tombstone" or "live"
SlotKind(entry) ==
    IF entry.key # 0 THEN "live"
    ELSE IF ValueEq(entry.value, Nil) THEN "empty" ELSE "tombstone"

\* table.set(key, value)
TSet(key, value) ==
    /\ pc = "idle"
    /\ nops < MaxOps
    /\ nops' = nops + 1
    /\ \E r \in {TableSet(table, key, value, objects)} :
       IF r.hang
       THEN /\ pc' = "hung"
            /\ UNCHANGED <<table, tmap, tret>>
       ELSE /\ table' = r.t
            /\ tmap' = [tmap EXCEPT ![key] = value]
            /\ tret' = [op |-> "set", ret |-> r.ret,
                        slot |-> SlotKind(PrevEntry(table, r.t, key, objects))]
            /\ pc' = pc
    /\ UNCHANGED <<allocVars, vmVars>>

\* table.delete(key)
TDelete(key) ==
    /\ pc = "idle"
    /\ nops < MaxOps
    /\ nops' = nops + 1
    /\ \E r \in {TableDelete(table, key, objects)} :
       IF r.hang
       THEN /\ pc' = "hung"
            /\ UNCHANGED <<table, tmap, tret>>
       ELSE /\ table' = r.t
            /\ tmap' = [tmap EXCEPT ![key] = NoValue]
            /\ tret' = [op |-> "delete", ret |-> r.ret, slot |-> "none"]
            /\ pc' = pc
    /\ UNCHANGED <<allocVars, vmVars>>

\* table.get(key): it changes nothing, unless its probe never ends
TGet(key) ==
    /\ pc = "idle"
    /\ pc' = IF TableGet(table, key, objects).hang THEN "hung" ELSE pc
    /\ UNCHANGED <<tableVars, allocVars, vmVars>>

NextTable ==
    \/ \E key \in Keys : \E value \in TableValues(key) : TSet(key, value)
    \/ \E key \in Keys : TDelete(key)
    \/ \E key \in Keys : TGet(key)

SpecTable == InitTable /\ [][NextTable]_vars

\* what get(key) returns according to the history of the calls
Expected(key) ==
    IF tmap[key] = NoValue THEN [hang |-> FALSE, some |-> FALSE, v |-> Nil]
    ELSE [hang |-> FALSE, some |-> TRUE, v |-> tmap[key]]

\* C1: after any sequence of set and delete calls, get(k) returns the value
\* of the most recent set(k, v) that no delete(k) followed, and None when
\* there is none (the table is a finite map keyed by handle).
C1_GetIsFiniteMap ==
    \A key \in Keys : TableGet(table, key, objects) = Expected(key)

----------------------------------------------------------------------------
(* SpecAlloc: one allocator serving copy_string, take_string and the       *)
(* string concatenation of Add, on the strings of StrPool.                 *)

\* "", "b", "\n" and their two-byte concatenations; the hashes of all seven
\* fall on slot 5 of a table of capacity 8
StrPool == { <<>>, <<98>>, <<10>>, <<98, 98>>, <<98, 10>>, <<10, 98>>, <<10, 10>> }

InitAlloc ==
    /\ AllocInit
    /\ TableInit
    /\ VmInit
    /\ pc = "idle"

\* what an allocator call leaves behind: r is [objects, strings, h]
AllocReturn(r, str, op) ==
    /\ objects' = r.objects
    /\ strings' = r.strings
    /\ freed' = [i \in 1..Len(r.objects) |-> NotFreed]
    /\ calls' = IF r.h = Hang THEN calls ELSE calls \cup {<<str, r.h>>}
    /\ last' = IF op = "copy_string" THEN last ELSE [op |-> op, h |-> r.h]
    /\ pc' = IF r.h = Hang THEN "hung" ELSE pc

Alloc == [objects |-> objects, strings |-> strings]

\* allocator.copy_string(str)
CopyString(str) ==
    /\ pc = "idle"
    /\ AllocReturn(copy_string(Alloc, str), str, "copy_string")
    /\ UNCHANGED <<tableVars, vmVars>>

\* allocator.take_string(str)
TakeString(str) ==
    /\ pc = "idle"
    /\ AllocReturn(take_string(Alloc, str), str, "take_string")
    /\ UNCHANGED <<tableVars, vmVars>>

\* Add on the string objects a and b
AddStrings(a, b) ==
    /\ pc = "idle"
    /\ objects[a].str \o objects[b].str \in StrPool
    /\ AllocReturn(add_strings(Alloc, a, b), objects[a].str \o objects[b].str, "Add")
    /\ UNCHANGED <<tableVars, vmVars>>

\* impl Drop for Allocator: the allocator goes out of scope
DropAllocator ==
    /\ pc = "idle"
    /\ freed' = free(Len(objects), freed)
    /\ pc' = "dropped"
    /\ UNCHANGED <<objects, strings, calls, last, tableVars, vmVars>>

NextAlloc ==
    \/ \E str \in StrPool : CopyString(str)
    \/ \E str \in StrPool : TakeString(str)
    \/ \E a \in 1..Len(objects), b \in 1..Len(objects) : AddStrings(a, b)
    \/ DropAllocator

SpecAlloc == InitAlloc /\ [][NextAlloc]_vars

\* C2: two copy_string calls with byte-equal strings return the same
\* handle, two calls with different bytes return different handles.
C2_Interning ==
    \A c1, c2 \in calls : (c1[1] = c2[1]) <=> (c1[2] = c2[2])

\* C2 witness: seven strings whose hashes share a home slot are interned,
\* the intern table has been resized, and a call returned an old handle
C2_Witness ==
    /\ Len(objects) = 7
    /\ strings.capacity = 16
    /\ Cardinality(calls) = 7

\* C3: a string created at run time (take_string, or Add on two strings)
\* has the handle copy_string returns for the same bytes, before and
\* after; it compares equal to that handle as a value and finds the
\* table entry set under it.
C3_RuntimeStringsInterned ==
    last.op \in {"take_string", "Add"} =>
        LET str == objects[last.h].str
            c == copy_string(Alloc, str)
        IN /\ \A call \in calls : call[1] = str => call[2] = last.h
           /\ c.h = last.h
           /\ ValueEq(Object(last.h), Object(c.h))
           /\ TableGet(TableSet(NewTable, c.h, Bool(FALSE), c.objects).t, last.h, c.objects)
                  = [hang |-> FALSE, some |-> TRUE, v |-> Bool(FALSE)]

\* C3 witness: Add has concatenated two strings into bytes that
\* copy_string had interned before under the handle Add now returns
C3_Witness ==
    /\ last.op = "Add"
    /\ Len(objects[last.h].str) = 2
    /\ last.h < Len(objects)
    /\ Len(objects) = 7

----------------------------------------------------------------------------
(* Spec: one Vm, created by Vm::new, on which interpret is called with the *)
(* sources below.  Interpret is the call up to the end of compile; each    *)
(* Step is one turn of the loop of Vm::run.                                *)

\* 9+5
SrcExpr == <<57, 43, 53>>
\* 
SrcEmpty == <<>>
\* \n
SrcNewline == <<10>>
\* print 9+5;
SrcPrintSum == <<112, 114, 105, 110, 116, 32, 57, 43, 53, 59>>
\* print 8/2.5;
SrcPrintQuotient == <<112, 114, 105, 110, 116, 32, 56, 47, 50, 46, 53, 59>>
\* print !(5 - 4 > 3 * 2 == !nil);
SrcPrintComparison == <<112, 114, 105, 110, 116, 32, 33, 40, 53, 32, 45, 32, 52, 32, 62, 32, 51, 32, 42, 32, 50, 32, 61, 61, 32, 33, 110, 105, 108, 41, 59>>
\* print "a";
SrcPrintString == <<112, 114, 105, 110, 116, 32, 34, 97, 34, 59>>
\* print "\n" + "\n";
SrcPrintConcat == <<112, 114, 105, 110, 116, 32, 34, 10, 34, 32, 43, 32, 34, 10, 34, 59>>
\* print 1
SrcPrintNoSemicolon == <<112, 114, 105, 110, 116, 32, 49>>
\* var a = 1
SrcVarNoSemicolon == <<118, 97, 114, 32, 97, 32, 61, 32, 49>>
\* var a = 1;
SrcVarOne == <<118, 97, 114, 32, 97, 32, 61, 32, 49, 59>>
\* var a;
SrcVarNil == <<118, 97, 114, 32, 97, 59>>
\* print a;
SrcPrintVar == <<112, 114, 105, 110, 116, 32, 97, 59>>
\* \nprint x\n;
SrcPrintUndefined == <<10, 112, 114, 105, 110, 116, 32, 120, 10, 59>>
\* 1 + 2 * -nil;
SrcTypeError == <<49, 32, 43, 32, 50, 32, 42, 32, 45, 110, 105, 108, 59>>
\* 1;
SrcOne == <<49, 59>>
\* print 1 + "a";
SrcAddNumberString == <<112, 114, 105, 110, 116, 32, 49, 32, 43, 32, 34, 97, 34, 59>>
\* print 1 + "\n";
SrcAddNumberNewline == <<112, 114, 105, 110, 116, 32, 49, 32, 43, 32, 34, 10, 34, 59>>
\* print nil + 1;
SrcAddNilNumber == <<112, 114, 105, 110, 116, 32, 110, 105, 108, 32, 43, 32, 49, 59>>
\* 1-nil;
SrcSubtractNil == <<49, 45, 110, 105, 108, 59>>
\* nil*1;
SrcMultiplyNil == <<110, 105, 108, 42, 49, 59>>
\* 1/nil;
SrcDivideNil == <<49, 47, 110, 105, 108, 59>>
\* nil\n<1;
SrcLessNil == <<110, 105, 108, 10, 60, 49, 59>>
\* 1>nil;
SrcGreaterNil == <<49, 62, 110, 105, 108, 59>>
\* print true; print nil;
SrcPrintTwo == <<112, 114, 105, 110, 116, 32, 116, 114, 117, 101, 59, 32, 112, 114, 105, 110, 116, 32, 110, 105, 108, 59>>
\* var a = 1; var a = 2; print a;
SrcRedefine == <<118, 97, 114, 32, 97, 32, 61, 32, 49, 59, 32, 118, 97, 114, 32, 97, 32, 61, 32, 50, 59, 32, 112, 114, 105, 110, 116, 32, 97, 59>>

Sources ==
    {SrcExpr, SrcEmpty, SrcNewline, SrcPrintSum, SrcPrintQuotient,
     SrcPrintComparison, SrcPrintString, SrcPrintConcat,
     SrcPrintNoSemicolon, SrcVarNoSemicolon, SrcVarOne, SrcVarNil,
     SrcPrintVar, SrcPrintUndefined, SrcTypeError, SrcOne, SrcRedefine,
     SrcAddNumberString, SrcAddNumberNewline, SrcAddNilNumber,
     SrcSubtractNil, SrcMultiplyNil, SrcDivideNil, SrcLessNil, SrcGreaterNil,
     SrcPrintTwo}

\* the number of interpret calls made on the Vm
MaxCalls == 3

\* the bytes the memory behind the source may hold
OobBytes == {0, 47, 48}

\* peek_next reads behind the source only when the last byte is '/' or '.'
OobChoices(source) ==
    IF Len(source) > 0 /\ source[Len(source)] \in {46, 47} THEN OobBytes ELSE {0}

\* Vm::new
Init ==
    /\ AllocInit
    /\ TableInit
    /\ VmInit
    /\ pc = "idle"

\* an interpret that calls run whatever compile returned
InterpretRunsAnyway(source) ==
    /\ pc = "idle"
    /\ Len(hist) < MaxCalls
    /\ \E oob \in OobChoices(source) : \E c \in {compile(source, Alloc, oob)} :
          /\ objects' = c.al.objects
          /\ strings' = c.al.strings
          /\ freed' = [i \in 1..Len(c.al.objects) |-> NotFreed]
          /\ IF c.r.kind = "Hang"
             THEN pc' = "hung" /\ result' = NoResult /\ chunk' = NoChunk /\ hist' = hist
             ELSE pc' = "running" /\ result' = NoResult /\ chunk' = c.chunk /\ hist' = hist
          /\ cur' = [source |-> source, status |-> "called", out0 |-> Len(out),
                     stack0 |-> stack, globals0 |-> globals, compiled |-> c.r,
                     underflow |-> FALSE]
    /\ ip' = 0
    /\ UNCHANGED <<globals, stack, out, defined, calls, last, tableVars, comp, scan, repl>>

\* Vm::interpret up to the call of run
Interpret(source) ==
    /\ pc = "idle"
    /\ Len(hist) < MaxCalls
    /\ \E oob \in OobChoices(source) : \E c \in {compile(source, Alloc, oob)} :
          /\ objects' = c.al.objects
          /\ strings' = c.al.strings
          /\ freed' = [i \in 1..Len(c.al.objects) |-> NotFreed]
          /\ IF c.r.kind = "Hang"
             THEN pc' = "hung" /\ result' = NoResult /\ chunk' = NoChunk /\ hist' = hist
             ELSE IF c.r # Ok
             THEN /\ pc' = "idle"
                  /\ result' = CompileError(c.r)
                  /\ chunk' = NoChunk
                  /\ hist' = Append(hist, "Compile")
             ELSE pc' = "running" /\ result' = NoResult /\ chunk' = c.chunk /\ hist' = hist
          /\ cur' = [source |-> source, status |-> "called", out0 |-> Len(out),
                     stack0 |-> stack, globals0 |-> globals, compiled |-> c.r,
                     underflow |-> FALSE]
    /\ ip' = 0
    /\ UNCHANGED <<globals, stack, out, defined, calls, last, tableVars, comp, scan, repl>>

\* the state Vm::run works on
VmState ==
    [stack |-> stack, out |-> out, globals |-> globals, al |-> Alloc, defined |-> defined,
     underflow |-> cur.underflow, n |-> Nil, res |-> NoResult, hang |-> FALSE]

\* one turn of the loop of Vm::run; run returns when res is set
Step ==
    /\ pc = "running"
    /\ \E vm \in {run_step(VmState, chunk, ip)} :
       LET ins == decode_instruction(chunk, ip)
           done == vm.res # NoResult
       IN /\ stack' = vm.stack
          /\ out' = vm.out
          /\ globals' = vm.globals
          /\ defined' = vm.defined
          /\ objects' = vm.al.objects
          /\ strings' = vm.al.strings
          /\ freed' = [i \in 1..Len(vm.al.objects) |-> NotFreed]
          /\ cur' = [cur EXCEPT !.underflow = vm.underflow]
          /\ result' = vm.res
          /\ pc' = IF vm.hang THEN "hung" ELSE IF done THEN "idle" ELSE "running"
          /\ hist' = IF done THEN Append(hist, vm.res.kind) ELSE hist
          /\ chunk' = IF done THEN NoChunk ELSE chunk
          /\ ip' = IF done \/ vm.hang THEN 0 ELSE ip + ins.len
    /\ UNCHANGED <<calls, last, tableVars, comp, scan, repl>>

Next ==
    \/ \E source \in Sources : Interpret(source)
    \/ Step

Spec == Init /\ [][Next]_vars

\* the bytes the call in progress or last finished has written
Written == SubSeq(out, cur.out0 + 1, Len(out))

\* an interpret call was made, and it is not inside Vm::run
Returned == cur.status = "called" /\ pc # "running"

\* what the sink must receive for a source `print e;`: the display form of
\* the value of e
PrintCases ==
    {[source |-> SrcPrintSum, expect |-> <<49, 52>>],
     [source |-> SrcPrintQuotient, expect |-> <<51, 46, 50>>],
     [source |-> SrcPrintComparison, expect |-> <<116, 114, 117, 101>>],
     [source |-> SrcPrintConcat, expect |-> <<10, 10>>],
     [source |-> SrcPrintString, expect |-> <<97>>]}

\* C4: compiling and executing `print e;` writes to the output sink
\* exactly the display form of the value of e (the number, true / false,
\* nil or the raw bytes of the string) and nothing else.
C4_PrintWritesDisplayForm ==
    \A pcase \in PrintCases :
        (Returned /\ cur.source = pcase.source) => Written = pcase.expect

\* C5: interpret of a source that is one expression with no trailing `;`
\* (`9+5`) succeeds and returns the value of the expression (14), on the
\* first call and on every repeated call on the same Vm.
C5_ExpressionResult ==
    (Returned /\ cur.source = SrcExpr) => result = OkResult(Number(14, 1))

\* C6: interpret of the empty source, or of a source that is only a
\* newline, returns the compile error ExpectedExpression and runs nothing.
C6_EmptySourceFails ==
    (cur.status = "called" /\ cur.source \in {SrcEmpty, SrcNewline}) =>
        /\ pc = "idle"
        /\ result.kind = "Compile"
        /\ result.err = "ExpectedExpression"

C8_StackBalanced ==
    (Returned /\ result.kind = "Ok") => (stack = <<>> /\ ~cur.underflow)

\* C9: every binding made by a `var` declaration is in the globals table
\* with its value in every later state of the Vm, across interpret calls
\* and across calls that ended with a runtime error; only DefineGlobal
\* changes a binding.
C9_GlobalsPersist ==
    \A name \in DOMAIN defined :
        LET h == find_string(strings, name, hash(name), objects) IN
        /\ h > 0
        /\ TableGet(globals, h, objects) = [hang |-> FALSE, some |-> TRUE, v |-> defined[name]]

\* C9 witness: a variable defined in the first call is printed with its
\* value in the third call, after a second call that ended with a runtime error
C9_Witness ==
    /\ hist = <<"Ok", "Runtime", "Ok">>
    /\ cur.source = SrcPrintVar
    /\ Written = <<49>>
    /\ defined[<<97>>] = Number(1, 1)

\* the 1-based line of the byte at position i of the source
LineAt(source, i) == 1 + Cardinality({j \in 1..(i - 1) : source[j] = 10})

\* the lines of the source on which the bytes of name stand
IdentLines(source, name) ==
    {LineAt(source, i) : i \in {j \in 1..(Len(source) - Len(name) + 1) :
                                   SubSeq(source, j, j + Len(name) - 1) = name}}

C10_GetGlobalStep ==
    LET ins == decode_instruction(chunk, ip)
        name == objects[ins.v.a].str
    IN (pc = "running" /\ ins.kind = "Ok" /\ ins.opcode = OpGetGlobal) =>
          IF name \in DOMAIN defined
          THEN pc' = "running" /\ stack' = Append(stack, defined[name])
          ELSE /\ pc' = "idle"
               /\ result'.kind = "Runtime"
               /\ result'.err = "UndefinedVariable"
               /\ result'.name = name
               /\ result'.line \in IdentLines(cur.source, name)
               /\ stack' = stack

\* C10: GetGlobal of a name no DefineGlobal has bound ends the run with
\* Runtime{UndefinedVariable(name), line}, line the source line of the
\* identifier, and leaves the stack as it was; GetGlobal of a bound name,
\* also one bound to nil, pushes its value and the run goes on.
C10_UndefinedVariable == [][C10_GetGlobalStep]_vars

\* C10 witness: `print x` on line 2 of the source, x never defined, has
\* ended the run with UndefinedVariable("x") at line 2
C10_Witness ==
    /\ Returned
    /\ cur.source = SrcPrintUndefined
    /\ result.err = "UndefinedVariable"
    /\ result.name = <<120>>
    /\ result.line = 2

\* the slots of table t that hold a live entry whose key is the string name
LiveSlots(t, name, objs) ==
    {i \in 1..t.capacity : t.entries[i].key # 0 /\ objs[t.entries[i].key].str = name}

C11_DefineGlobalStep ==
    LET ins == decode_instruction(chunk, ip)
        name == objects[ins.v.a].str
    IN (pc = "running" /\ ins.kind = "Ok" /\ ins.opcode = OpDefineGlobal) =>
          /\ pc' = "running"
          /\ result' = NoResult
          /\ stack' = SubSeq(stack, 1, Len(stack) - 1)
          /\ TableGet(globals', ins.v.a, objects')
                 = [hang |-> FALSE, some |-> TRUE, v |-> stack[Len(stack)]]
          /\ Cardinality(LiveSlots(globals', name, objects')) = 1
          /\ \A other \in DOMAIN defined :
                 other # name =>
                     \E h \in 1..Len(objects) :
                         /\ objects[h].str = other
                         /\ TableGet(globals', h, objects') = TableGet(globals, h, objects)

\* C11: DefineGlobal always succeeds and re-definition overwrites: every
\* DefineGlobal step goes on with the run, pops the value, leaves exactly
\* one live entry for the name in the globals table, and a read of the name
\* then yields that value (the value of the last declaration); the other
\* bindings stay as they were.
C11_DefineGlobalOverwrites == [][C11_DefineGlobalStep]_vars

\* C11 witness: `var a = 1; var a = 2; print a;` has run and written 2,
\* with one live entry for a in the globals table
C11_Witness ==
    /\ Returned
    /\ cur.source = SrcRedefine
    /\ result.kind = "Ok"
    /\ Written = <<50>>
    /\ defined[<<97>>] = Number(2, 1)
    /\ Cardinality(LiveSlots(globals, <<97>>, objects)) = 1

\* C12: when compile fails, interpret returns the compile error and no
\* instruction is executed: Vm::run is not entered, nothing is written to
\* the output sink, and the globals table and the operand stack are as
\* they were before the call.
C12_CompileErrorRunsNothing ==
    (cur.status = "called" /\ cur.compiled \notin {Ok, Error("Hang")}) =>
        /\ pc = "idle"
        /\ result = CompileError(cur.compiled)
        /\ Written = <<>>
        /\ globals = cur.globals0
        /\ stack = cur.stack0

\* C12 witness: a compile error returned on a Vm that holds a global, a
\* stale operand stack and earlier output
C12_Witness ==
    /\ Returned
    /\ result.kind = "Compile"
    /\ cur.compiled # Ok
    /\ globals.len > 0
    /\ stack # <<>>
    /\ out # <<>>

\* the Value of the string literal str: the object copy_string interned
StringValue(str) == Object(find_string(strings, str, hash(str), objects))

\* sources `print a + b;` with one operand a number and the other not: the
\* operands in source order, and the line of the last token of b (the line
\* emit_byte stores for the Add instruction)
AddCases ==
    {[source |-> SrcAddNumberString, values |-> <<Number(1, 1), StringValue(<<97>>)>>,
      line |-> 1],
     [source |-> SrcAddNumberNewline, values |-> <<Number(1, 1), StringValue(<<10>>)>>,
      line |-> 2],
     [source |-> SrcAddNilNumber, values |-> <<Nil, Number(1, 1)>>, line |-> 1]}

\* C13: Add on two operands that are not both numbers and not both strings
\* (`print 1 + "a";`) ends the call with Runtime{InvalidTypes,
\* ExpectedNumberOrStringOperand, line}, carrying both operands, the left
\* one first, and the line stored for the Add instruction; no result is
\* pushed and nothing is printed.
C13_AddInvalidTypes ==
    \A acase \in AddCases :
        (Returned /\ cur.source = acase.source) =>
            /\ result = RuntimeError("InvalidTypes", acase.values, <<>>, acase.line)
            /\ stack = cur.stack0
            /\ Written = <<>>

\* the operands a numeric instruction pops, in the order it pops them, up
\* to the first that is not a Number
PoppedOperands(opcode) ==
    IF opcode = OpNegate \/ stack[Len(stack)].t # TagNumber \/ Len(stack) = 1
    THEN <<stack[Len(stack)]>>
    ELSE <<stack[Len(stack)], stack[Len(stack) - 1]>>

C14_NumericStep ==
    LET ins == decode_instruction(chunk, ip)
        popped == PoppedOperands(ins.opcode)
        bad == popped[Len(popped)]
    IN (/\ pc = "running"
        /\ ins.kind = "Ok"
        /\ ins.opcode \in {OpSubtract, OpMultiply, OpDivide, OpNegate, OpLess, OpGreater}
        /\ stack # <<>>
        /\ bad.t # TagNumber) =>
          /\ pc' = "idle"
          /\ result' = RuntimeError("InvalidType", <<bad>>, <<>>, chunk.lines[ip + 1])
          /\ stack' = SubSeq(stack, 1, Len(stack) - Len(popped))
          /\ out' = out

C15_PrintStep ==
    LET ins == decode_instruction(chunk, ip)
    IN (pc = "running" /\ ins.kind = "Ok" /\ ins.opcode = OpPrint /\ stack # <<>>) =>
          /\ pc' = "running"
          /\ out' = out \o Display(stack[Len(stack)], objects)
          /\ stack' = SubSeq(stack, 1, Len(stack) - 1)

\* the bytes of "truenil"
TrueNil == <<116, 114, 117, 101, 110, 105, 108>>

C15_TwoPrints ==
    (Returned /\ cur.source = SrcPrintTwo) => (result.kind = "Ok" /\ Written = TrueNil)

\* C15: every Print appends exactly the display form of the value it pops
\* to the output sink, so the prints of a program appear in source order
\* with nothing between or after them: `print true; print nil;` writes
\* exactly `truenil`.
C15_PrintsInOrder == []C15_TwoPrints /\ [][C15_PrintStep]_vars

\* C15 witness: `print true; print nil;` has run to its end after an
\* earlier call had already written to the sink
C15_Witness ==
    /\ Returned
    /\ cur.source = SrcPrintTwo
    /\ cur.out0 > 0
    /\ Written = TrueNil

----------------------------------------------------------------------------
(* SpecCompile: one compile call on a fresh allocator, taken a declaration *)
(* at a time: the first advance, then one turn of the loop                 *)
(* `while !self.matches(None)? { self.declaration()?; }` per step, then    *)
(* end_compiler.  The sources are the sources of Spec, sources with        *)
(* several errors, and statements repeated until the chunk has about       *)
(* U8Max + 1 constants.                                                    *)

\* stmt written n times
Repeat(stmt, n) == [i \in 1..(n * Len(stmt)) |-> stmt[((i - 1) % Len(stmt)) + 1]]

RECURSIVE CountConstants(_, _, _)
\* how many tokens of src from the scanner sc on are a number, a string or
\* an identifier: each of them takes one constant of the chunk
CountConstants(src, sc, oob) ==
    With([t \in {scan_token(src, sc, oob)} |->
        IF t.res \in {"Hang", "None"} THEN 0
        ELSE CountConstants(src, t.sc, oob)
             + (IF t.res = "Token" /\ t.tok.kind \in {"Number", "String", "Identifier"}
                THEN 1 ELSE 0)])

\* the constants the source Repeat(stmt, n) needs
ConstantsNeeded(stmt, n) == n * CountConstants(stmt, NewScanner, 0)

\* 1;
StmtOne == <<49, 59>>
\* 1+1;
StmtSum == <<49, 43, 49, 59>>
\* var a;
StmtVar == <<118, 97, 114, 32, 97, 59>>
\* print a;
StmtPrintVar == <<112, 114, 105, 110, 116, 32, 97, 59>>
\* 1+1+1;
StmtSum3 == <<49, 43, 49, 43, 49, 59>>
LongStatements == {StmtOne, StmtSum, StmtVar, StmtPrintVar, StmtSum3}

\* how far from the U8Max + 1 constants the repeated sources end
MaxExtra == 1

\* the numbers of repetitions of stmt that need about U8Max + 1 constants
Repetitions(stmt) ==
    LET full == (U8Max + 1) \div ConstantsNeeded(stmt, 1)
    IN (full - MaxExtra)..(full + MaxExtra)

\* @;1;#;
SrcTwoBadBytes == <<64, 59, 49, 59, 35, 59>>
\* 1 @;\n2 #;
SrcTwoBadStatements == <<49, 32, 64, 59, 10, 50, 32, 35, 59>>
\* print 1 print 2 print;
SrcTwoMissing == <<112, 114, 105, 110, 116, 32, 49, 32, 112, 114, 105, 110, 116, 32, 50, 32, 112, 114, 105, 110, 116, 59>>
\* 1 +; 2 +;
SrcTwoBadExpressions == <<49, 32, 43, 59, 32, 50, 32, 43, 59>>
\* 1; @
SrcBadByteLast == <<49, 59, 32, 64>>
\* print 1; 2 @ 3; print 4;
SrcBadByteMiddle == <<112, 114, 105, 110, 116, 32, 49, 59, 32, 50, 32, 64, 32, 51, 59, 32, 112, 114, 105, 110, 116, 32, 52, 59>>
ErrorSources ==
    {SrcTwoBadBytes, SrcTwoBadStatements, SrcTwoMissing, SrcTwoBadExpressions,
     SrcBadByteLast, SrcBadByteMiddle}

CompileInputs ==
    {[stmt |-> source, n |-> 1] : source \in Sources \cup ErrorSources}
    \cup UNION {{[stmt |-> stmt, n |-> n] : n \in Repetitions(stmt)} : stmt \in LongStatements}

InitCompile ==
    /\ AllocInit
    /\ TableInit
    /\ globals = NewTable
    /\ stack = <<>>
    /\ out = <<>>
    /\ chunk = NoChunk
    /\ ip = 0
    /\ result = NoResult
    /\ cur = NoCall
    /\ defined = <<>>
    /\ hist = <<>>
    /\ scan = NoScan
    /\ repl = NoRepl
    /\ pc = "idle"
    /\ \E input \in CompileInputs :
       \E oob \in OobChoices(Repeat(input.stmt, input.n)) :
          comp = [status |-> "new",
                  c |-> NewCompiler(Repeat(input.stmt, input.n), NewAllocator, oob),
                  decls |-> 0, stmt |-> input.stmt, n |-> input.n]

\* where a compile call stands after a method returned c
CompileStatus(c) ==
    IF c.r.kind = "Hang" THEN "hung" ELSE IF c.r # Ok THEN "returned" ELSE "loop"

\* compile up to the loop: self.advance()?
CompileBegin ==
    /\ comp.status = "new"
    /\ \E c \in {advance(comp.c)} :
          comp' = [comp EXCEPT !.c = c, !.status = CompileStatus(c)]
    /\ UNCHANGED <<allocVars, tableVars, pc, globals, stack, out, chunk, ip, result, cur,
                   defined, hist, scan, repl>>

\* one turn of the loop of compile: matches(None) is false, declaration()?
CompileDeclaration ==
    /\ comp.status = "loop"
    /\ \E m \in {matches(comp.c, "None")} :
          /\ m.r = Ok
          /\ ~m.m
          /\ \E c \in {declaration(m)} :
                comp' = [comp EXCEPT !.c = c, !.status = CompileStatus(c), !.decls = @ + 1]
    /\ UNCHANGED <<allocVars, tableVars, pc, globals, stack, out, chunk, ip, result, cur,
                   defined, hist, scan, repl>>

\* the loop of compile is left: matches(None) fails or is true, end_compiler
CompileEnd ==
    /\ comp.status = "loop"
    /\ \E m \in {matches(comp.c, "None")} :
          /\ m.r # Ok \/ m.m
          /\ comp' = [comp EXCEPT !.c = IF m.r # Ok THEN m ELSE end_compiler(m),
                                  !.status = IF m.r.kind = "Hang" THEN "hung" ELSE "returned"]
    /\ UNCHANGED <<allocVars, tableVars, pc, globals, stack, out, chunk, ip, result, cur,
                   defined, hist, scan, repl>>

NextCompile ==
    \/ CompileBegin
    \/ CompileDeclaration
    \/ CompileEnd

SpecCompile == InitCompile /\ [][NextCompile]_vars

\* the steps of SpecCompile make the compile of the model: what a finished
\* call of a short source has built is what compile builds at once
CompileInSteps ==
    (comp.status \in {"returned", "hung"} /\ comp.n = 1) =>
        comp.c = compile(comp.c.src, NewAllocator, comp.c.oob)

\* C16: a compile of a source that needs more than 256 constants returns
\* TooManyConstants, and a compile of a source that needs at most 256
\* constants never returns it.
C16_TooManyConstants ==
    comp.status = "returned" =>
        (comp.c.r = Error("TooManyConstants")
            <=> ConstantsNeeded(comp.stmt, comp.n) > U8Max + 1)

\* C16 witness: `1+1+1;` written 86 times needs 258 constants; compile
\* has returned TooManyConstants on the 257th, in its 86th declaration
C16_Witness ==
    /\ comp.status = "returned"
    /\ comp.stmt = StmtSum3
    /\ ConstantsNeeded(comp.stmt, comp.n) = U8Max + 3
    /\ comp.c.r = Error("TooManyConstants")
    /\ Len(comp.c.chunk.constants) = U8Max + 2
    /\ comp.decls = 86

\* sources with an error in each of two statements; second is the position
\* (from 1) of the first byte of the token that shows the second error
TwoErrorCases ==
    {[source |-> SrcTwoBadBytes, second |-> 5],
     [source |-> SrcTwoBadStatements, second |-> 8],
     [source |-> SrcTwoMissing, second |-> 17],
     [source |-> SrcTwoBadExpressions, second |-> 9]}

\* C17: compile reports every error of a source in one pass: when the
\* compile of a source with errors in two separate statements returns, it
\* has failed, it has gone on to a later declaration after the one that
\* failed first, and its scanner has read the token of the second error.
C17_AllErrorsDetected ==
    \A ecase \in TwoErrorCases :
        (comp.status = "returned" /\ comp.c.src = ecase.source) =>
            /\ comp.c.r # Ok
            /\ comp.decls >= 2
            /\ comp.c.sc.current >= ecase.second

\* C18: compile returns success if and only if had_error was never set
\* during the compilation (had_error, once set, stays set until compile
\* returns).
C18_SuccessIffNoError ==
    comp.status = "returned" => (comp.c.r = Ok <=> ~comp.c.had_error)

\* the slots of t that hold a key, and the slots that hold a tombstone
LiveEntries(t) == {i \in 1..t.capacity : t.entries[i].key # 0}
Tombstones(t) ==
    {i \in 1..t.capacity : t.entries[i].key = 0 /\ ~ValueEq(t.entries[i].value, Nil)}

\* C19: adjust_capacity, called on any table the set and delete calls can
\* build, returns a table in which every live key of the old slot array is
\* found with its value and no other key is found, which has no tombstone,
\* and whose len is the number of its live entries.
C19_ResizePreserves ==
    \E r \in {adjust_capacity(table, grow_capacity(table.capacity), objects)} :
        /\ ~r.hang
        /\ r.t.capacity = grow_capacity(table.capacity)
        /\ \A i \in LiveEntries(table) :
               TableGet(r.t, table.entries[i].key, objects)
                   = [hang |-> FALSE, some |-> TRUE, v |-> table.entries[i].value]
        /\ \A key \in Keys :
               (\A i \in LiveEntries(table) : table.entries[i].key # key) =>
                   ~TableGet(r.t, key, objects).some
        /\ Tombstones(r.t) = {}
        /\ r.t.len = Cardinality(LiveEntries(table))
        /\ r.t.len = Cardinality(LiveEntries(r.t))

\* C19 witness: six keys were set, one of them was deleted, and the set of
\* a seventh key has resized the table from 8 to 16 slots: the tombstone
\* is gone, len is 5 + 1 and every key is found as the calls left it
C19_Witness ==
    /\ nops = 8
    /\ table.capacity = 16
    /\ table.len = 6
    /\ Cardinality(LiveEntries(table)) = 6
    /\ Tombstones(table) = {}
    /\ \A key \in Keys : TableGet(table, key, objects) = Expected(key)

RECURSIVE IsCapacity(_)
\* 0, 8, 16, 32, ...
IsCapacity(n) == n = 0 \/ n = 8 \/ (n > 8 /\ n % 2 = 0 /\ IsCapacity(n \div 2))

\* C20 as stated: after any sequence of set and delete calls len / capacity
\* is strictly below 0.75 whenever capacity > 0, and capacity is one of
\* 0, 8, 16, 32, ...
C20_LoadBelowMax ==
    /\ table.capacity > 0 => MaxLoadDen * table.len < MaxLoadNum * table.capacity
    /\ IsCapacity(table.capacity)

\* C20, amended: after any sequence of set and delete calls len / capacity
\* is at most 0.75 whenever capacity > 0 (set grows the table only when
\* len + 1 would exceed 0.75 * capacity, so len reaches the limit itself),
\* and capacity is one of 0, 8, 16, 32, ...
C20_LoadAtMostMax ==
    /\ table.capacity > 0 => MaxLoadDen * table.len <= MaxLoadNum * table.capacity
    /\ table.capacity = 0 => table.len = 0
    /\ IsCapacity(table.capacity)

\* C20 witness: six keys set in a table of 8 slots, a load of exactly 0.75
C20_Witness ==
    /\ nops = 6
    /\ table.capacity = 8
    /\ table.len = 6
    /\ Cardinality(LiveEntries(table)) = 6

\* C21 as stated: set(k, v) returns true if and only if the slot it writes
\* was a never-used slot before (no live entry and no tombstone).
C21_TrueIffNeverUsed ==
    tret.op = "set" => (tret.ret <=> tret.slot = "empty")

\* C21, amended: set(k, v) returns true if and only if the slot it writes
\* held no key before, be it a never-used slot or a tombstone; overwriting
\* the value of a live key returns false.
C21_TrueIffNewKey ==
    tret.op = "set" => (tret.ret <=> tret.slot \in {"empty", "tombstone"})

\* C21 witness: a set has returned true after writing its key over a
\* tombstone, and len counts the key no second time
C21_Witness ==
    /\ tret = [op |-> "set", ret |-> TRUE, slot |-> "tombstone"]
    /\ Cardinality(LiveEntries(table)) = table.len
    /\ table.len = 3

\* delete has just returned after clearing the slot i, which held a key
DeletedSlot(i) ==
    /\ nops' = nops + 1
    /\ tret'.op = "delete"
    /\ table.entries[i].key # 0
    /\ table'.capacity = table.capacity
    /\ table'.entries[i].key = 0

C22_DeleteStep ==
    \A i \in 1..table.capacity :
        DeletedSlot(i) =>
            /\ tret'.ret
            /\ table'.entries[i] = Tombstone
            /\ TableGet(table', table.entries[i].key, objects)
                   = [hang |-> FALSE, some |-> FALSE, v |-> Nil]
            /\ \A j \in LiveEntries(table) \ {i} :
                   /\ table'.entries[j] = table.entries[j]
                   /\ TableGet(table', table.entries[j].key, objects)
                          = [hang |-> FALSE, some |-> TRUE, v |-> table.entries[j].value]
            /\ table'.len = table.len

\* C22: delete(k) on a live key k turns its slot into a tombstone and
\* returns true; afterwards get(k) is None, every other live key is found
\* with the value it had, and len and capacity are unchanged.
C22_DeleteLiveKey == [][C22_DeleteStep]_vars

\* the u32 0xHHHHLLLL as its halves
U32(hi, lo) == [hi |-> hi, lo |-> lo]

\* "foobar"
Foobar == <<102, 111, 111, 98, 97, 114>>

\* C23: hash("") = 0x811C9DC5, hash("a") = 0xE40C292C and hash("foobar") =
\* 0xBF9CF968, and the hash stored in every string object the allocator
\* holds is the hash of its bytes (0xE40C292C in the object of "a").
C23_Fnv1a ==
    /\ hash(<<>>) = U32(33052, 40389)
    /\ hash(<<97>>) = U32(58380, 10540)
    /\ hash(Foobar) = U32(49052, 63848)
    /\ \A h \in 1..Len(objects) :
           /\ objects[h].hash = hash(objects[h].str)
           /\ objects[h].str = <<97>> => objects[h].hash = U32(58380, 10540)

\* C23 witness: the allocator holds the string object of "a", made by
\* new_string_object, with the hash 0xE40C292C
C23_Witness ==
    \E h \in 1..Len(objects) :
        /\ objects[h].str = <<97>>
        /\ objects[h].hash = U32(58380, 10540)
        /\ find_string(strings, <<97>>, U32(58380, 10540), objects) = h

----------------------------------------------------------------------------
(* SpecScan: one Scanner on one source, scan_token called until it reports *)
(* the end of the source (or never returns).  The sources are words shaped *)
(* like identifiers, made from the keywords, and the sources of Spec and   *)
(* SpecCompile.                                                            *)

\* the keywords and their token kinds
KeywordKinds ==
    {<<<<97, 110, 100>>, "And">>,
     <<<<99, 108, 97, 115, 115>>, "Class">>,
     <<<<101, 108, 115, 101>>, "Else">>,
     <<<<102, 97, 108, 115, 101>>, "False">>,
     <<<<102, 111, 114>>, "For">>,
     <<<<102, 117, 110>>, "Fun">>,
     <<<<105, 102>>, "If">>,
     <<<<110, 105, 108>>, "Nil">>,
     <<<<111, 114>>, "Or">>,
     <<<<112, 114, 105, 110, 116>>, "Print">>,
     <<<<114, 101, 116, 117, 114, 110>>, "Return">>,
     <<<<115, 117, 112, 101, 114>>, "Super">>,
     <<<<116, 104, 105, 115>>, "This">>,
     <<<<116, 114, 117, 101>>, "True">>,
     <<<<118, 97, 114>>, "Var">>,
     <<<<119, 104, 105, 108, 101>>, "While">>}

Keywords == {k[1] : k \in KeywordKinds}

\* the bytes a word is extended with: a, i, s, _, 1
ExtensionBytes == {97, 105, 115, 95, 49}

\* the words made from the word w: w, its proper prefixes, w with one more
\* byte, w without its first byte, and w with a capital first letter
WordsOf(w) ==
    {w}
    \cup {SubSeq(w, 1, k) : k \in 1..(Len(w) - 1)}
    \cup {w \o <<c>> : c \in ExtensionBytes}
    \cup {SubSeq(w, 2, Len(w)), [w EXCEPT ![1] = @ - 32]}

Words == UNION {WordsOf(w) : w \in Keywords}

\* print fori; // for\nvar thiss = nil_ or _or;
SrcWords == <<112, 114, 105, 110, 116, 32, 102, 111, 114, 105, 59, 32, 47, 47, 32, 102, 111, 114, 10, 118, 97, 114, 32, 116, 104, 105, 115, 115, 32, 61, 32, 110, 105, 108, 95, 32, 111, 114, 32, 95, 111, 114, 59>>

\* ""
SrcEmptyString == <<34, 34>>
\* "\n"
SrcNewlineString == <<34, 10, 34>>
\* "\n\n" 1
SrcTwoLineString == <<34, 10, 10, 34, 32, 49>>
\* "
SrcQuote == <<34>>
\* 1 "\n
SrcUnterminated == <<49, 32, 34, 10>>
\* "a
SrcUnterminatedByte == <<34, 97>>
\* // a "\n""1//\n\n  nil
SrcComments == <<47, 47, 32, 97, 32, 34, 10, 34, 34, 49, 47, 47, 10, 10, 32, 32, 110, 105, 108>>
StringSources ==
    {SrcEmptyString, SrcNewlineString, SrcTwoLineString, SrcQuote, SrcUnterminated,
     SrcUnterminatedByte, SrcComments}

\* 1 /
SrcSlashEnd == <<49, 32, 47>>
\* 12.
SrcDotEnd == <<49, 50, 46>>
\* 1.5 / 2 // 3
SrcDotSlashInside == <<49, 46, 53, 32, 47, 32, 50, 32, 47, 47, 32, 51>>
\* sources that end in a byte behind which peek_next looks, and one that
\* holds the same bytes inside
LookaheadSources == {SrcSlashEnd, SrcDotEnd, SrcDotSlashInside}

ScanSources == Words \cup {<<32>> \o w \o <<10>> : w \in Keywords} \cup {SrcWords}
                     \cup Sources \cup ErrorSources \cup StringSources
                     \cup LookaheadSources

InitScan ==
    /\ AllocInit
    /\ TableInit
    /\ globals = NewTable
    /\ stack = <<>>
    /\ out = <<>>
    /\ chunk = NoChunk
    /\ ip = 0
    /\ result = NoResult
    /\ cur = NoCall
    /\ defined = <<>>
    /\ hist = <<>>
    /\ comp = NoCompile
    /\ repl = NoRepl
    /\ pc = "idle"
    /\ \E source \in ScanSources : \E oob \in OobChoices(source) :
          scan = [NoScan EXCEPT !.src = source, !.oob = oob, !.res = "new"]

\* scanner.scan_token(); start is the position of the first byte behind
\* the whitespace and comments it skips
ScanToken ==
    /\ scan.res \notin {"none", "None", "Hang"}
    /\ \E t \in {scan_token(scan.src, scan.sc, scan.oob)} :
       \E first \in {skip_whitespace(scan.src, scan.sc, scan.oob)} :
          scan' = [scan EXCEPT !.sc = t.sc, !.res = t.res, !.tok = t.tok,
                               !.start = first.current, !.n = @ + 1,
                               !.reads = Dereferenced(scan.src, scan.sc, scan.oob)]
    /\ UNCHANGED <<allocVars, tableVars, pc, globals, stack, out, chunk, ip, result, cur,
                   defined, hist, comp, repl>>

NextScan == ScanToken

SpecScan == InitScan /\ [][NextScan]_vars

\* a byte of an identifier
IsWordByte(c) == is_alpha(c) \/ is_ascii_digit(c)

\* the token scan_token has just returned began with a letter or `_`
WordScanned == scan.res = "Token" /\ is_alpha(scan.src[scan.start + 1])

RECURSIVE WordEnd(_, _)
\* the end of the longest run of identifier bytes of src from i on
WordEnd(src, i) == IF i < Len(src) /\ IsWordByte(src[i + 1]) THEN WordEnd(src, i + 1) ELSE i

\* C24: an identifier-shaped lexeme is a keyword token if and only if it is
\* exactly one of the 16 keywords, with the kind of that keyword; every
\* other one is an Identifier; and the lexeme is the whole scanned word.
C24_KeywordsExactly ==
    WordScanned =>
        /\ scan.tok.lex = SubSeq(scan.src, scan.start + 1, WordEnd(scan.src, scan.start))
        /\ scan.sc.current = WordEnd(scan.src, scan.start)
        /\ \A k \in KeywordKinds : scan.tok.lex = k[1] => scan.tok.kind = k[2]
        /\ scan.tok.lex \notin Keywords => scan.tok.kind = "Identifier"

\* C24 witness: `thiss`, `this` and one more byte, is scanned whole as an
\* Identifier
C24_Witness ==
    /\ WordScanned
    /\ scan.tok = [kind |-> "Identifier", lex |-> <<116, 104, 105, 115, 115>>, line |-> 1]
    /\ scan.src = <<116, 104, 105, 115, 115>>

\* the token scan_token has just been asked for begins with a quote
StringScanned == scan.res \notin {"none", "new", "None"} /\ scan.src[scan.start + 1] = 34

RECURSIVE NextQuote(_, _)
\* the position (from 1) of the first quote of src behind position i, or 0
NextQuote(src, i) ==
    IF i >= Len(src) THEN 0
    ELSE IF src[i + 1] = 34 THEN i + 1 ELSE NextQuote(src, i + 1)

\* C25: scanning a string literal that has a closing quote yields one
\* String token whose lexeme is the bytes between the quotes and leaves the
\* scanner just past the closing quote; without a closing quote the scan
\* fails with UnterminatedString.
C25_StringToken ==
    StringScanned =>
        LET close == NextQuote(scan.src, scan.start + 1)
        IN IF close = 0 THEN scan.res = "UnterminatedString"
           ELSE /\ scan.res = "Token"
                /\ scan.tok.kind = "String"
                /\ scan.tok.lex = SubSeq(scan.src, scan.start + 2, close - 1)
                /\ scan.sc.current = close

\* the line (from 1) of the byte of src at position pos (from 1)
LineOf(src, pos) == 1 + Cardinality({i \in 1..(pos - 1) : src[i] = 10})

\* C26: every token carries the line of its first byte, whatever its kind,
\* also a string literal that spans several lines and a token that follows
\* a line comment.
C26_LineOfFirstByte ==
    scan.res = "Token" => scan.tok.line = LineOf(scan.src, scan.start + 1)

\* C27: over the life of an allocator every allocated object is freed
\* exactly once, at the destruction of the allocator: nothing of an object
\* is freed before, and after it the allocation and the string of every
\* object have been freed once, none twice and none left
C27_FreedExactlyOnce ==
    \A h \in 1..Len(objects) :
        /\ pc # "dropped" => freed[h] = NotFreed
        /\ pc = "dropped" => freed[h] = [obj |-> 1, str |-> 1]

----------------------------------------------------------------------------
(* SpecRepl: main started without arguments.  repl.at is where main is:   *)
(* "prompt" (top of the loop), "read" (in read_line), "line" (in          *)
(* VM::interpret(&line)?) or "ended" (main has left the loop); repl.lines *)
(* counts the lines whose interpretation has returned.                     *)

\* the lines read_line hands over: var a = 1;  print a;  print 1
\* 1 + 2 * -nil;  print "a";  and the blank line, each with its newline
ReplLines ==
    {source \o <<10>> :
        source \in {SrcVarOne, SrcPrintVar, SrcPrintNoSemicolon, SrcTypeError,
                    SrcPrintString, SrcEmpty}}

\* print!("> ")
Prompt == <<62, 32>>

\* main: VM::init(), no argument, repl() entered
InitRepl ==
    /\ AllocInit
    /\ TableInit
    /\ globals = NewTable
    /\ stack = <<>>
    /\ out = <<>>
    /\ chunk = NoChunk
    /\ ip = 0
    /\ result = NoResult
    /\ cur = NoCall
    /\ defined = <<>>
    /\ hist = <<>>
    /\ comp = NoCompile
    /\ scan = NoScan
    /\ repl = [NoRepl EXCEPT !.at = "prompt"]
    /\ pc = "idle"

\* repl: line.clear(); print!("> "); stdout.flush()
ReplPrompt ==
    /\ repl.at = "prompt"
    /\ out' = out \o Prompt
    /\ repl' = [repl EXCEPT !.at = "read", !.line = <<>>]
    /\ UNCHANGED <<allocVars, tableVars, pc, globals, stack, chunk, ip, result, cur, defined,
                   hist, comp, scan>>

\* repl: stdin.read_line(&mut line) returning a line
ReplReadLine(line) ==
    /\ repl.at = "read"
    /\ repl' = [repl EXCEPT !.at = "line", !.line = line]
    /\ UNCHANGED <<allocVars, tableVars, pc, globals, stack, out, chunk, ip, result, cur,
                   defined, hist, comp, scan>>

\* the process exit code main ends with on the result r of repl
ExitCode(r) ==
    IF r.kind = "Compile" THEN 65 ELSE IF r.kind = "Runtime" THEN 70 ELSE 0

\* repl: read_line returns 0 bytes, break, Ok(()); main: VM::free()
ReplEndOfInput ==
    /\ repl.at = "read"
    /\ repl' = [repl EXCEPT !.at = "ended", !.eof = TRUE, !.exit = ExitCode(OkResult(Nil))]
    /\ UNCHANGED <<allocVars, tableVars, pc, globals, stack, out, chunk, ip, result, cur,
                   defined, hist, comp, scan>>

\* repl: the call VM::interpret(&line)
ReplInterpret ==
    /\ repl.at = "line"
    /\ Len(hist) = repl.lines
    /\ Interpret(repl.line)

\* repl: VM::interpret(&line)? once the call has returned; on an Err repl
\* returns it and main ends the process with its exit code
ReplReturn ==
    /\ repl.at = "line"
    /\ pc = "idle"
    /\ Len(hist) = repl.lines + 1
    /\ repl' = IF result.kind = "Ok"
               THEN [repl EXCEPT !.at = "prompt", !.lines = @ + 1]
               ELSE [repl EXCEPT !.at = "ended", !.lines = @ + 1, !.exit = ExitCode(result)]
    /\ UNCHANGED <<allocVars, tableVars, pc, globals, stack, out, chunk, ip, result, cur,
                   defined, hist, comp, scan>>

NextRepl ==
    \/ ReplPrompt
    \/ \E line \in ReplLines : ReplReadLine(line)
    \/ ReplEndOfInput
    \/ ReplInterpret
    \/ Step
    \/ ReplReturn

SpecRepl == InitRepl /\ [][NextRepl]_vars

\* the state of the VM that outlives an interpret call
VmKept == <<globals, stack, objects, strings, defined>>

\* C28: the REPL loop ends only at end of input; after every line, also one
\* whose interpretation returned a compile or a runtime error, the loop is
\* at its top again on the same VM state, the prompt `> ` is printed and
\* the next line is read and interpreted.
C28_ReplStep ==
    /\ (repl.at = "line" /\ repl'.at # "line") => (repl'.at = "prompt" /\ VmKept' = VmKept)
    /\ (repl.at = "prompt" /\ repl'.at # "prompt") =>
           (repl'.at = "read" /\ out' = out \o Prompt /\ VmKept' = VmKept)
    /\ (repl.at = "read" /\ repl'.at # "read") =>
           ((repl'.at = "line" \/ repl'.eof) /\ VmKept' = VmKept)
C28_ReplEndsOnlyAtEof == [](repl.at = "ended" => repl.eof) /\ [][C28_ReplStep]_vars

\* the line emit_byte passes to Chunk::write in the compiler c
EmitLine(c) == IF c.previous.kind = "None" THEN 0 ELSE c.previous.line

\* the lines Chunk::write is tried with on the chunks the compiler builds
WriteLines == 0..2

\* C29: in every chunk, and after every Chunk::write, code and lines have
\* the same length and lines[i] is the line passed with the byte code[i]:
\* a write leaves the lines of the bytes before it alone and gives its own
\* byte the line it was passed, which for the compiler is the line of the
\* previous token at the time of the emission.
C29_LinesMatchCode ==
    \E ch \in {comp.c.chunk} :
        /\ Len(ch.lines) = Len(ch.code)
        /\ \A line \in WriteLines : \E w \in {ChunkWrite(ch, OpReturn, line)} :
              /\ Len(w.lines) = Len(w.code)
              /\ w.lines[Len(w.code)] = line
              /\ \A i \in 1..Len(ch.code) : w.code[i] = ch.code[i] /\ w.lines[i] = ch.lines[i]
        /\ (comp.c.r = Ok /\ Len(ch.code) > 0) => ch.lines[Len(ch.code)] = EmitLine(comp.c)

\* C30: the constant pool of a chunk never holds more than 256 entries, in
\* every state reached during a compilation, the state in which compile
\* fails with TooManyConstants included.
C30_PoolAtMost256 == Len(comp.c.chunk.constants) <= U8Max + 1

\* C30 (amended): the pool never holds more than 256 entries in a state of a
\* compilation that has not failed with TooManyConstants; in the state in
\* which compile fails with TooManyConstants it holds 257, the constant that
\* was refused being its last entry.
C30_PoolAtMost256UntilFailure ==
    IF comp.c.r = Error("TooManyConstants")
    THEN Len(comp.c.chunk.constants) = U8Max + 2
    ELSE Len(comp.c.chunk.constants) <= U8Max + 1

\* C30 witness: `1;` written 257 times; compile has failed on the 257th
\* constant, which is in the pool
C30_Witness ==
    /\ comp.status = "returned"
    /\ comp.stmt = StmtOne
    /\ comp.n = U8Max + 2
    /\ comp.c.r = Error("TooManyConstants")
    /\ Len(comp.c.chunk.constants) = U8Max + 2
    /\ comp.c.chunk.constants[U8Max + 2] = Number(1, 1)

\* C31: after any sequence of set and delete calls, count (the field len)
\* is the number of live entries plus the number of tombstones of the slot
\* array, and it never exceeds the capacity.
C31_CountIsLivePlusTombstones ==
    /\ table.len = Cardinality(LiveEntries(table)) + Cardinality(Tombstones(table))
    /\ table.len <= table.capacity

\* the errors a compilation raises in the scanner and in the parser
ScannerErrors == {"ParserError"}
ParserErrors == {"ExpectedExpression", "ExpectedToken", "ExpectedVariableName"}

\* C32: the first error of a compilation, raised by the scanner or by the
\* parser, sets both had_error and panic_mode; while panic_mode is set no
\* further error is reported (reported counts the errors advance prints).
C32_FirstErrorSetsFlags ==
    /\ (comp.status = "returned" /\ comp.c.r.kind \in ScannerErrors \cup ParserErrors) =>
           (comp.c.had_error /\ comp.c.panic_mode)
    /\ comp.c.panic_mode => advance(comp.c).reported = comp.c.reported

----------------------------------------------------------------------------
(* SpecFile: main started with one argument, a file that holds             *)
(* `print <expression>;`.  repl.at is "file" while run_file is in          *)
(* VM::interpret(&source)?, repl.expr keeps the parts of the expression.   *)

\* the source text of the binary operators
OperatorText ==
    [Plus |-> <<43>>, Minus |-> <<45>>, Star |-> <<42>>, Slash |-> <<47>>,
     EqualEqual |-> <<61, 61>>, BangEqual |-> <<33, 61>>, Less |-> <<60>>,
     LessEqual |-> <<60, 61>>, Greater |-> <<62>>, GreaterEqual |-> <<62, 61>>]
BinaryOperators == DOMAIN OperatorText

\* the source text of the unary operators, "None" for no operator
UnaryText == [None |-> <<>>, Minus |-> <<45>>, Bang |-> <<33>>]

\* the expressions `u a op1 b op2 c` over number literals
Expressions ==
    [u : DOMAIN UnaryText, a : {2, 3}, op1 : BinaryOperators, b : {2, 3},
     op2 : BinaryOperators, c : {1, 2}]

\* print u a op1 b op2 c;
ExpressionSource(e) ==
    <<112, 114, 105, 110, 116, 32>> \o UnaryText[e.u] \o Digits(e.a) \o <<32>>
        \o OperatorText[e.op1] \o <<32>> \o Digits(e.b) \o <<32>> \o OperatorText[e.op2]
        \o <<32>> \o Digits(e.c) \o <<59>>

\* main: VM::init(), one argument: run_file has read the file
InitFile ==
    /\ AllocInit
    /\ TableInit
    /\ globals = NewTable
    /\ stack = <<>>
    /\ out = <<>>
    /\ chunk = NoChunk
    /\ ip = 0
    /\ result = NoResult
    /\ cur = NoCall
    /\ defined = <<>>
    /\ hist = <<>>
    /\ comp = NoCompile
    /\ scan = NoScan
    /\ \E e \in Expressions :
          repl = [NoRepl EXCEPT !.at = "file", !.line = ExpressionSource(e), !.expr = e]
    /\ pc = "idle"

\* run_file: the call VM::interpret(&source)
RunFileInterpret ==
    /\ repl.at = "file"
    /\ Len(hist) = repl.lines
    /\ Interpret(repl.line)

\* run_file: VM::interpret(&source)? has returned, Ok(()) or the Err; main
\* ends the process with the exit code
RunFileReturn ==
    /\ repl.at = "file"
    /\ pc = "idle"
    /\ Len(hist) = repl.lines + 1
    /\ repl' = [repl EXCEPT !.at = "ended", !.lines = @ + 1, !.exit = ExitCode(result)]
    /\ UNCHANGED <<allocVars, tableVars, pc, globals, stack, out, chunk, ip, result, cur,
                   defined, hist, comp, scan>>

NextFile ==
    \/ RunFileInterpret
    \/ Step
    \/ RunFileReturn

SpecFile == InitFile /\ [][NextFile]_vars

\* an operand of the wrong type
TypeError == [t |-> -2, a |-> 0, b |-> 0]

\* the levels of the binary operators: Factor, Term, Comparison, Equality
Level(op) ==
    CASE op \in {"Star", "Slash"} -> 4
      [] op \in {"Plus", "Minus"} -> 3
      [] op \in {"Less", "LessEqual", "Greater", "GreaterEqual"} -> 2
      [] op \in {"EqualEqual", "BangEqual"} -> 1

\* x OP y
Apply(op, x, y) ==
    IF x = TypeError \/ y = TypeError THEN TypeError
    ELSE IF op = "EqualEqual" THEN Bool(ValueEq(x, y))
    ELSE IF op = "BangEqual" THEN Bool(~ValueEq(x, y))
    ELSE IF x.t # TagNumber \/ y.t # TagNumber THEN TypeError
    ELSE CASE op = "Plus" -> NumAdd(x, y)
           [] op = "Minus" -> NumSub(x, y)
           [] op = "Star" -> NumMul(x, y)
           [] op = "Slash" -> NumDiv(x, y)
           [] op = "Less" -> Bool(NumLess(x, y))
           [] op = "LessEqual" -> Bool(~NumGreater(x, y))
           [] op = "Greater" -> Bool(NumGreater(x, y))
           [] op = "GreaterEqual" -> Bool(~NumLess(x, y))

\* OP x for a unary operator
ApplyUnary(op, x) ==
    IF op = "None" THEN x
    ELSE IF op = "Bang" THEN Bool(is_falsey(x))
    ELSE IF x.t = TagNumber THEN NumNeg(x) ELSE TypeError

\* the value of `u a op1 b op2 c`: the unary operator first, then the
\* operator of the higher level, and the left one of two of the same level
ValueOf(e) ==
    LET a == ApplyUnary(e.u, Number(e.a, 1))
        b == Number(e.b, 1)
        c == Number(e.c, 1)
    IN IF Level(e.op1) >= Level(e.op2)
       THEN Apply(e.op2, Apply(e.op1, a, b), c)
       ELSE Apply(e.op1, a, Apply(e.op2, b, c))

C34_ProbesTerminate ==
    /\ pc # "hung"
    /\ table.capacity > 0 => \E i \in 1..table.capacity : table.entries[i] = EmptyEntry
    /\ table.capacity = 0 => table.len = 0
    /\ \A key \in Keys :
          /\ ~TableGet(table, key, objects).hang
          /\ ~TableSet(table, key, Nil, objects).hang
          /\ ~TableDelete(table, key, objects).hang
          /\ find_string(table, objects[key].str, objects[key].hash, objects) # Hang

\* the keys that are live in t
LiveKeys(t) == {t.entries[i].key : i \in LiveEntries(t)}

\* C35: delete(k) for a key k that is not live in the table (the step is a
\* delete that has returned, and every live key is still live) returns
\* false and leaves the table as it was: no slot written, no tombstone
\* made, the same count.
C35_DeleteStep ==
    (nops' = nops + 1 /\ pc' = "idle" /\ tret'.op = "delete"
        /\ LiveKeys(table') = LiveKeys(table)) =>
            (~tret'.ret /\ table' = table)
C35_DeleteAbsentKey == [][C35_DeleteStep]_vars

\* C36: at the start of every interpret call the operand stack of the Vm is
\* empty, whatever earlier calls on the same Vm returned; a call that ended
\* with a runtime error has left no value on it.
C36_StackEmptyAtStart ==
    /\ cur.status = "called" => cur.stack0 = <<>>
    /\ (Returned /\ result.kind = "Runtime") => stack = <<>>


\* C37: scan_token terminates on every finite source: a call reports the
\* end of the input, returns an error, or returns a token after consuming
\* at least one byte; no loop inside it iterates without advancing.
C37_ScanTokenTerminates ==
    /\ scan.res # "Hang"
    /\ scan.res = "Token" => scan.sc.current > scan.start
    /\ scan.res = "None" => scan.sc.current = Len(scan.src)


\* C38: the scanner never reads a byte at or beyond the end of the source:
\* every position it dereferences is strictly less than the length of the
\* source, also for a source that ends in `/` or in digits and a `.`.
C38_ReadsInsideSource ==
    \A p \in scan.reads : p < Len(scan.src)


----------------------------------------------------------------------------
(* SpecAddAll: two Tables, `table` the source and `globals` the dest, are  *)
(* filled by set and delete calls, and then source.add_all(dest) is        *)
(* called once.  tret keeps the two tables as they were before the call.   *)

\* the number of set / delete calls made before add_all
MaxSetup == 4
\* "a" and "i", which collide, and "e"
AddAllKeys == {5, 6, 1}
AddAllValues == {Nil, Bool(FALSE)}

InitAddAll ==
    /\ \E al \in {CopyAll(NewAllocator, KeyPool, 1)} :
          /\ objects = al.objects
          /\ strings = al.strings
    /\ freed = [i \in 1..Len(KeyPool) |-> NotFreed]
    /\ calls = {}
    /\ last = NoLast
    /\ TableInit
    /\ VmInit
    /\ pc = "idle"

\* source.set(key, value)
SourceSet(key, value) ==
    /\ pc = "idle"
    /\ nops < MaxSetup
    /\ nops' = nops + 1
    /\ table' = TableSet(table, key, value, objects).t
    /\ UNCHANGED <<tmap, tret, pc, allocVars, vmVars>>

\* source.delete(key)
SourceDelete(key) ==
    /\ pc = "idle"
    /\ nops < MaxSetup
    /\ nops' = nops + 1
    /\ table' = TableDelete(table, key, objects).t
    /\ UNCHANGED <<tmap, tret, pc, allocVars, vmVars>>

\* dest.set(key, value)
DestSet(key, value) ==
    /\ pc = "idle"
    /\ nops < MaxSetup
    /\ nops' = nops + 1
    /\ globals' = TableSet(globals, key, value, objects).t
    /\ UNCHANGED <<allocVars, table, tmap, tret, pc, stack, out, chunk, ip, result, cur,
                   defined, hist, comp, scan, repl>>

\* source.add_all(&mut dest)
AddAll(read) ==
    /\ pc = "idle"
    /\ \E r \in {add_all(table, globals, read, objects)} :
          /\ globals' = r.t
          /\ pc' = CASE r.status = "ok" -> "added"
                     [] r.status = "fault" -> "fault"
                     [] OTHER -> "hung"
    /\ tret' = [op |-> "add_all", source |-> table, dest |-> globals]
    /\ UNCHANGED <<allocVars, table, tmap, nops, stack, out, chunk, ip, result, cur,
                   defined, hist, comp, scan, repl>>

NextAddAll ==
    \/ \E key \in AddAllKeys : \E value \in AddAllValues : SourceSet(key, value)
    \/ \E key \in AddAllKeys : SourceDelete(key)
    \/ \E key \in AddAllKeys : \E value \in AddAllValues : DestSet(key, value)
    \/ \E read \in NullReads : AddAll(read)

SpecAddAll == InitAddAll /\ [][NextAddAll]_vars

\* C39: after source.add_all(dest) every live key of source is a live key
\* of dest with the same value, the keys that were only in dest keep their
\* values, and source is unchanged.
C39_AddAllCopies ==
    pc = "added" =>
        /\ \A key \in LiveKeys(tret.source) :
              TableGet(globals, key, objects) = TableGet(tret.source, key, objects)
        /\ \A key \in LiveKeys(tret.dest) \ LiveKeys(tret.source) :
              TableGet(globals, key, objects) = TableGet(tret.dest, key, objects)
        /\ table = tret.source

====
